---- MODULE Spec2Model ----
(***************************************************************************)
(* Model of the text-input editing engine (qt/src/component/input.rs) and  *)
(* of the popup-menu tracker (qt/src/component/menu.rs).                   *)
(*                                                                         *)
(* A handler is one action.  Inside an action the Context struct is a      *)
(* record threaded through operators named after the Rust functions; the   *)
(* record also carries what the call did to the host (fx_* fields) and     *)
(* the Result plumbing (err, fuel, aborted, ret).                          *)
(***************************************************************************)
EXTENDS Integers, Sequences, FiniteSets, TLC

VARIABLES context, faults, menus, tracker, popup

vars == <<context, faults, menus, tracker, popup>>

(***************************************************************************)
(* Bounds of the model.                                                    *)
(***************************************************************************)
\* longest Vec<u16> a StringBuffer may grow to before further growth is cut
MaxVec == 4
\* longest Vec<u16> in the runs of SpecUndo, whose edits follow one another
MaxUndoVec == 5
\* a handler may be told that its k-th fallible host call fails, k <= MaxFuel
MaxFuel == 2
\* advance width of every glyph as reported by the shaping service
GlyphAdvance == 2
\* host calls that fail in one run of SpecFaults
MaxFaults == 1
\* largest screen coordinate a popup is asked to appear at
MaxCoord == 4
\* largest width and height of a popup
MaxExtent == 4

\* the most host calls one turn of the tracking loop and the return make
MaxCalls == 5

(***************************************************************************)
(* Option<T>                                                               *)
(***************************************************************************)
None == <<>>
Some(x) == <<x>>
IsSome(o) == o # <<>>
Unwrap(o) == o[1]

Min(a, b) == IF a < b THEN a ELSE b
Max(a, b) == IF a < b THEN b ELSE a

(***************************************************************************)
(* Code units.                                                             *)
(***************************************************************************)
NUL == 0
BACK == 8
CTRL_C == 3
CTRL_V == 22
CTRL_X == 24
CTRL_Z == 26
LF == 10
CR == 13
SPACE == 32
DEL == 127
\* the printable code units events may carry: a letter and a digit
Printable == {65, 49}
\* keys of WM_KEYDOWN
Keys == {"LEFT", "RIGHT", "HOME", "END", "DELETE", "INSERT", "A", "OTHER"}

(***************************************************************************)
(* StringBuffer(Vec<u16>)                                                  *)
(***************************************************************************)
Zeros(n) == [i \in 1..n |-> NUL]

StringBuffer_new == <<NUL>>

StringBuffer_with_capacity(capacity) == Zeros(capacity + 1)

\* lstrlenW: the number of code units before the first terminator
lstrlenW(v) ==
    IF \E i \in 1..Len(v) : v[i] = NUL
    THEN (CHOOSE i \in 1..Len(v) : v[i] = NUL /\ \A j \in 1..(i - 1) : v[j] # NUL) - 1
    ELSE Len(v)

\* PCWSTR::as_wide: the code units before the first terminator
as_wide(v) == SubSeq(v, 1, lstrlenW(v))

make_fit(v, size) ==
    IF size + 1 < Len(v) THEN v ELSE v \o Zeros(size + 1 - Len(v))

empty(v) ==
    IF Len(v) > 32 THEN <<NUL>> ELSE [v EXCEPT ![1] = NUL]

insert_at(v, at, to_insert) ==
    SubSeq(v, 1, at) \o to_insert \o SubSeq(v, at + 1, Len(v))

remove_at(v, at) ==
    SubSeq(v, 1, at) \o SubSeq(v, at + 2, Len(v))

is_empty(v) == v[1] = NUL

\* u_memcpy(dst + dst_off, src + src_off, count), offsets zero-based
u_memcpy(dst, dst_off, src, src_off, count) ==
    [i \in 1..Len(dst) |->
        IF i > dst_off /\ i <= dst_off + count THEN src[src_off + (i - dst_off)] ELSE dst[i]]

\* lstrcpynW(dst + dst_off [.. max_length], src + src_off): copies at most
\* max_length - 1 code units of the source string, then a terminator
lstrcpynW(dst, dst_off, max_length, src, src_off) ==
    LET tail == SubSeq(src, src_off + 1, Len(src))
        n    == Min(lstrlenW(tail), max_length - 1)
    IN  [i \in 1..Len(dst) |->
            IF i > dst_off /\ i <= dst_off + n THEN src[src_off + (i - dst_off)]
            ELSE IF i = dst_off + n + 1 THEN NUL
            ELSE dst[i]]

(***************************************************************************)
(* Result plumbing.  c.err: an Err is being returned through `?`.          *)
(* c.aborted: the handler did not run to its end (an arithmetic overflow   *)
(* or an out-of-range index).  c.fuel = k > 0: the k-th fallible host call *)
(* of this handler fails.                                                  *)
(***************************************************************************)
Ok(c) == ~c.err /\ ~c.aborted

\* Sequencing.  Only({ e : x \in {v} }) is  `let x = v; e`  and
\* Only({ IF ~Ok(x) THEN x ELSE e : x \in {v} }) is  `let x = v?; e`.
\* The binding is written after the expression it scopes over, so a chain
\*     Only({ Only({ e : c2 \in {g(c1)} }) : c1 \in {f(c0)} })
\* runs f, then g, then e: the statements of the source are the binder
\* lines read from the last one up, followed by the innermost expression.
Only(S) == CHOOSE r \in S : TRUE


HostCall(c) ==
    IF c.fuel = 1 THEN [c EXCEPT !.err = TRUE, !.fuel = 0]
    ELSE IF c.fuel > 1 THEN [c EXCEPT !.fuel = c.fuel - 1]
    ELSE c

Abort(c) == [c EXCEPT !.aborted = TRUE]

(***************************************************************************)
(* impl Context                                                            *)
(***************************************************************************)
get_text_length(c) ==
    IF IsSome(c.cached_text_length) THEN c
    ELSE [c EXCEPT !.cached_text_length = Some(lstrlenW(c.buffer))]

TextLength(c) == Unwrap(get_text_length(c).cached_text_length)

invalidate_uniscribe_data(c) ==
    IF IsSome(c.ssa)
    THEN Only({IF Ok(d) THEN [d EXCEPT !.ssa = None] ELSE d : d \in {HostCall(c)}})
    ELSE c

\* text_buffer_changed that keeps the word-break attribute table
text_buffer_changed_keeping_table(c) ==
    Only({invalidate_uniscribe_data(d) :
          d \in {[c EXCEPT !.cached_text_length = None]}})

text_buffer_changed(c) ==
    Only({invalidate_uniscribe_data(d) :
          d \in {[c EXCEPT !.cached_text_length = None, !.log_attribute = None]}})

empty_undo_buffer(c) ==
    [c EXCEPT !.undo_insert_count = 0, !.undo_buffer = empty(c.undo_buffer)]

(***************************************************************************)
(* The shaping service.  An analysis (ssa) is the string it was made from; *)
(* every glyph advances by GlyphAdvance.                                   *)
(***************************************************************************)
ScriptString_pSize_cx(ssa) == GlyphAdvance * Len(ssa)

\* ScriptStringCPtoX(ssa, icp, false)?  -> ret
ScriptStringCPtoX(c, icp) ==
    Only({IF ~Ok(d) THEN d
          ELSE IF icp < 0 \/ icp >= Len(Unwrap(d.ssa)) THEN [d EXCEPT !.err = TRUE]
          ELSE [d EXCEPT !.ret = GlyphAdvance * icp] : d \in {HostCall(c)}})

update_uniscribe_data(c0) ==
    IF IsSome(c0.ssa) THEN c0
    ELSE Only({
         LET length == Unwrap(c1.cached_text_length)
         IN  IF length = 0 THEN c1
             ELSE Only({IF ~Ok(c2) THEN c2 ELSE
                  [c2 EXCEPT !.ssa = Some(SubSeq(c2.buffer, 1, Min(length, Len(c2.buffer))))]
             : c2 \in {HostCall(c1)}})
    : c1 \in {get_text_length(c0)}})

calculate_line_width(c0) ==
    Only({IF ~Ok(c1) THEN c1
          ELSE [c1 EXCEPT !.char_width =
                   IF IsSome(c1.ssa) THEN ScriptString_pSize_cx(Unwrap(c1.ssa)) ELSE 0] :
          c1 \in {update_uniscribe_data(c0)}})

\* position_from_char(..)?.x  -> ret
position_from_char(c0, index0) ==
    Only({
    Only({IF ~Ok(c2) THEN c2 ELSE
    LET length == Unwrap(c1.cached_text_length)
        has    == IsSome(c2.ssa)
        cx     == IF has THEN ScriptString_pSize_cx(Unwrap(c2.ssa)) ELSE 0
    IN
    Only({IF ~Ok(c3) THEN c3 ELSE
    LET x_off == IF c2.x_offset = 0 \/ ~has THEN 0
                 ELSE IF c2.x_offset >= length
                      THEN cx + c2.char_width * (c2.x_offset - length)
                      ELSE c3.ret
        index == Min(index0, length)
    IN
    Only({IF ~Ok(c4) THEN c4 ELSE
    LET xi == IF index = 0 THEN 0
              ELSE IF index >= length THEN cx
              ELSE IF has THEN c4.ret
              ELSE 0
    IN  [c4 EXCEPT !.ret = xi - x_off + c4.format_left]
    : c4 \in {IF index # 0 /\ index < length /\ has
        THEN ScriptStringCPtoX(c3, index) ELSE c3}})
    : c3 \in {IF c2.x_offset # 0 /\ has /\ c2.x_offset < length
        THEN ScriptStringCPtoX(c2, c2.x_offset) ELSE c2}})
    : c2 \in {update_uniscribe_data(c1)}})
    : c1 \in {get_text_length(c0)}})

\* get_single_line_rect(..)?  -> ret = <<left, right>>
get_single_line_rect(c0, start_col, end_col) ==
    Only({IF ~Ok(c1) THEN c1 ELSE
    Only({IF ~Ok(c2) THEN c2 ELSE
    Only({
    LET use == IsSome(c3.ssa) /\ start_col < Unwrap(c3.cached_text_length)
    IN
    Only({IF ~Ok(c4) THEN c4 ELSE
    LET pt1 == c1.ret
        pt2 == c2.ret
        pt3 == IF use THEN c4.ret + c4.format_left ELSE pt1
    IN  [c4 EXCEPT !.ret = <<Min(Min(pt1, pt2), pt3), Max(Max(pt1, pt2), pt3)>>]
    : c4 \in {IF use THEN ScriptStringCPtoX(c3, start_col) ELSE c3}})
    : c3 \in {get_text_length(c2)}})
    : c2 \in {IF IsSome(end_col) THEN position_from_char(c1, Unwrap(end_col))
        ELSE [c1 EXCEPT !.ret = c1.format_right]}})
    : c1 \in {IF start_col = 0 THEN [c0 EXCEPT !.ret = c0.format_left]
        ELSE position_from_char(c0, start_col)}})

\* IntersectRect(line_rect, format_rect) is non-empty (both span the line's rows)
IntersectRect(rect, c) ==
    Max(rect[1], c.format_left) < Min(rect[2], c.format_right)

invalidate_text(c0, start, end) ==
    IF start = end THEN c0
    ELSE LET actual_start == Min(start, end)
             actual_end   == Max(start, end)
         IN  Only({IF ~Ok(c1) THEN c1 ELSE
                 [c1 EXCEPT !.fx_inval = Append(@, <<actual_start, actual_end,
                                                     IntersectRect(c1.ret, c1)>>)]
         : c1 \in {get_single_line_rect(c0, actual_start, Some(actual_end))}})

\* the whole span from the least to the greatest of the four offsets is
\* invalidated
invalidate_difference_whole(c0, old_start, old_end, new_start, new_end) ==
    invalidate_text(c0, Min(Min(new_start, new_end), Min(old_start, old_end)),
                        Max(Max(new_start, new_end), Max(old_start, old_end)))

\* lines 369-389: the parts of the old and the new range that are not in both
\* are invalidated
invalidate_difference(c0, old_start, old_end, new_start, new_end) ==
    LET \* order_usize!(new_end, old_end); order_usize!(new_start, old_start)
        ne1 == Min(new_end, old_end)
        oe1 == Max(new_end, old_end)
        ns1 == Min(new_start, old_start)
        os1 == Max(new_start, old_start)
        \* order_usize!(old_start, old_end); order_usize!(new_start, new_end)
        os2 == Min(os1, oe1)
        oe2 == Max(os1, oe1)
        ns2 == Min(ns1, ne1)
        ne2 == Max(ns1, ne1)
    IN  IF ne2 # os2
        THEN IF os2 > ne2
             THEN Only({IF ~Ok(d) THEN d ELSE invalidate_text(d, os2, oe2)
                  : d \in {invalidate_text(c0, ns2, ne2)}})
             ELSE Only({IF ~Ok(d) THEN d ELSE invalidate_text(d, ne2, oe2)
                  : d \in {invalidate_text(c0, ns2, os2)}})
        ELSE invalidate_text(c0, ns2, oe2)

\* set_selection with the endpoints of the old pair swapped in its test for
\* "nothing changes"
set_selection_swapped_test(c0, start, end) ==
    Only({
    LET old_start == c1.selection_start
        old_end   == c1.selection_end
        length    == Unwrap(c1.cached_text_length)
        new_start == IF IsSome(start) THEN Min(length, Unwrap(start)) ELSE c1.selection_end
        new_end   == IF IsSome(start)
                     THEN (IF IsSome(end) THEN Min(length, Unwrap(end)) ELSE length)
                     ELSE c1.selection_end
    IN  IF old_end = new_start /\ old_start = new_end THEN [c1 EXCEPT !.ret = FALSE] ELSE
    Only({IF ~Ok(c3) THEN c3 ELSE [c3 EXCEPT !.ret = TRUE]
    : c3 \in {invalidate_difference(
                 [c1 EXCEPT !.selection_start = new_start, !.selection_end = new_end],
                 old_start, old_end, new_start, new_end)}})
    : c1 \in {get_text_length(c0)}})

\* set_selection that stores the pair sorted
set_selection_sorted(c0, start, end) ==
    Only({
    LET old_start == c1.selection_start
        old_end   == c1.selection_end
        length    == Unwrap(c1.cached_text_length)
        new_start == IF IsSome(start) THEN Min(length, Unwrap(start)) ELSE c1.selection_end
        new_end   == IF IsSome(start)
                     THEN (IF IsSome(end) THEN Min(length, Unwrap(end)) ELSE length)
                     ELSE c1.selection_end
    IN  IF old_start = new_start /\ old_end = new_end THEN [c1 EXCEPT !.ret = FALSE] ELSE
    Only({IF ~Ok(c3) THEN c3 ELSE [c3 EXCEPT !.ret = TRUE]
    : c3 \in {invalidate_difference(
                 [c1 EXCEPT !.selection_start = Min(new_start, new_end),
                            !.selection_end = Max(new_start, new_end)],
                 old_start, old_end, new_start, new_end)}})
    : c1 \in {get_text_length(c0)}})

\* set_selection(..)?  -> ret = changed
set_selection(c0, start, end) ==
    Only({
    LET old_start == c1.selection_start
        old_end   == c1.selection_end
        length    == Unwrap(c1.cached_text_length)
        new_start == IF IsSome(start) THEN Min(length, Unwrap(start)) ELSE c1.selection_end
        new_end   == IF IsSome(start)
                     THEN (IF IsSome(end) THEN Min(length, Unwrap(end)) ELSE length)
                     ELSE c1.selection_end
    IN  IF old_start = new_start /\ old_end = new_end THEN [c1 EXCEPT !.ret = FALSE] ELSE
    Only({IF ~Ok(c3) THEN c3 ELSE [c3 EXCEPT !.ret = TRUE]
    : c3 \in {invalidate_difference(
                 [c1 EXCEPT !.selection_start = new_start, !.selection_end = new_end],
                 old_start, old_end, new_start, new_end)}})
    : c1 \in {get_text_length(c0)}})

\* SetCaretPos and update_imm_composition_window
set_caret_position(c0, position) ==
    IF c0.is_focused
    THEN Only({IF Ok(c1) THEN HostCall(c1) ELSE c1 : c1 \in {position_from_char(c0, position)}})
    ELSE c0

RECURSIVE scroll_left_loop(_, _)
scroll_left_loop(c0, goal) ==
    IF c0.x_offset = 0 THEN Abort(c0) ELSE
    Only({
    Only({IF ~Ok(c2) THEN c2 ELSE
        IF c2.ret >= goal \/ c2.x_offset = 0 THEN c2
        ELSE scroll_left_loop(c2, goal)
    : c2 \in {position_from_char(c1, c1.selection_end)}})
    : c1 \in {[c0 EXCEPT !.x_offset = c0.x_offset - 1]}})

\* the scroll to the right as one step, not a loop
scroll_right_once(c0, goal, len) ==
    Only({
    Only({IF ~Ok(c2) THEN c2 ELSE
    position_from_char(c2, len)
    : c2 \in {position_from_char(c1, c1.selection_end)}})
    : c1 \in {[c0 EXCEPT !.x_offset = c0.x_offset + 1]}})

RECURSIVE scroll_right_loop(_, _, _)
scroll_right_loop(c0, goal, len) ==
    Only({
    Only({IF ~Ok(c2) THEN c2 ELSE
    Only({IF ~Ok(c3) THEN c3 ELSE
        IF c2.ret <= goal \/ c3.ret <= c3.format_right THEN c3
        ELSE scroll_right_loop(c3, goal, len)
    : c3 \in {position_from_char(c2, len)}})
    : c2 \in {position_from_char(c1, c1.selection_end)}})
    : c1 \in {[c0 EXCEPT !.x_offset = c0.x_offset + 1]}})

scroll_caret(c0) ==
    Only({IF ~Ok(c1) THEN c1 ELSE
    LET x            == c1.ret
        format_width == c1.format_right - c1.format_left
    IN
    Only({IF ~Ok(c2) THEN c2 ELSE
    set_caret_position(c2, c2.selection_end)
    : c2 \in {IF x < c1.format_left
        THEN Only({IF ~Ok(d) THEN d ELSE
                 [d EXCEPT !.fx_inval_rect = @ + 1]
        : d \in {scroll_left_loop(c1, c1.format_left + (format_width \div 3))}})
        ELSE IF x > c1.format_right
        THEN Only({
             Only({IF ~Ok(d) THEN d ELSE
                 [d EXCEPT !.fx_inval_rect = @ + 1]
             : d \in {scroll_right_loop(e, e.format_right - (format_width \div 3),
                                   Unwrap(e.cached_text_length))}})
        : e \in {get_text_length(c1)}})
        ELSE c1}})
    : c1 \in {position_from_char(c0, c0.selection_end)}})

update_scroll_info(c) == c

\* The width-limit loop of replace_selection (lines 443-449)
RECURSIVE trim_loop(_, _, _, _)
trim_loop(c0, fw, start, replace_length) ==
    IF ~(c0.text_width > fw) THEN [c0 EXCEPT !.ret = replace_length]
    ELSE IF start + replace_length = 0 \/ start + replace_length - 1 >= Len(c0.buffer)
    THEN Abort(c0)
    ELSE Only({
         IF replace_length = 0 THEN Abort(c1) ELSE
         Only({IF ~Ok(c2) THEN c2 ELSE
         Only({IF ~Ok(c3) THEN c3 ELSE
         trim_loop(c3, fw, start, replace_length - 1)
         : c3 \in {calculate_line_width(c2)}})
         : c2 \in {invalidate_uniscribe_data(c1)}})
    : c1 \in {[c0 EXCEPT !.buffer = remove_at(c0.buffer, start + replace_length - 1),
                        !.cached_text_length = None]}})

\* Undo bookkeeping of a deletion (lines 453-491); buf holds the deleted span
undo_record_delete(c0, can_undo, start, end, buf) ==
    IF ~can_undo THEN empty_undo_buffer(c0) ELSE
    LET undo_text_length == lstrlenW(c0.undo_buffer)
        n == end - start
    IN
    Only({IF ~Ok(c1) THEN c1 ELSE
    [c1 EXCEPT !.undo_insert_count = 0]
    : c1 \in {IF c0.undo_insert_count = 0 /\ ~is_empty(c0.undo_buffer)
           /\ start = c0.undo_position
        THEN IF n > Len(c0.buffer) THEN Abort(c0)
             ELSE [c0 EXCEPT !.undo_buffer =
                      u_memcpy(make_fit(c0.undo_buffer, undo_text_length + n),
                               undo_text_length, c0.buffer, 0, n)]
        ELSE IF c0.undo_insert_count = 0 /\ ~is_empty(c0.undo_buffer)
                /\ end = c0.undo_position
        THEN [c0 EXCEPT !.undo_buffer =
                 insert_at(make_fit(c0.undo_buffer, undo_text_length + n), 0, as_wide(buf)),
                        !.undo_position = start]
        ELSE [c0 EXCEPT !.undo_buffer = u_memcpy(make_fit(c0.undo_buffer, n), 0, buf, 0, n),
                        !.undo_position = start]}})

\* Undo bookkeeping of an insertion (lines 492-507)
undo_record_insert(c0, can_undo, start, replace) ==
    IF ~can_undo THEN empty_undo_buffer(c0)
    ELSE IF start = c0.undo_position
            \/ (c0.undo_insert_count # 0
                /\ start = c0.undo_position + c0.undo_insert_count)
    THEN [c0 EXCEPT !.undo_insert_count = c0.undo_insert_count + Len(replace)]
    ELSE [c0 EXCEPT !.undo_insert_count = Len(replace),
                    !.undo_buffer = empty(c0.undo_buffer)]

\* lines 408-433: room is made for the new text, the selected span [start, end)
\* is copied out (-> ret = buf) and the rest of the text is moved down over it
remove_selected(c0, start, end, replace_length) ==
    Only({
    LET text_length == Unwrap(c1.cached_text_length)
        size == text_length - (end - start) + replace_length
    IN  IF end - start > text_length THEN Abort(c1) ELSE
    Only({
    IF end = start THEN [c2 EXCEPT !.ret = StringBuffer_new]
    ELSE IF end >= Len(c2.buffer) \/ size < start THEN Abort(c2)
    ELSE Only({IF ~Ok(c3) THEN c3 ELSE
         [c3 EXCEPT !.ret = u_memcpy(StringBuffer_with_capacity(end - start), 0,
                                    c2.buffer, start, end - start)]
         : c3 \in {text_buffer_changed(
                      [c2 EXCEPT !.buffer =
                          lstrcpynW(c2.buffer, start, size - start + 1, c2.buffer, end)])}})
    : c2 \in {[c1 EXCEPT !.text_width = IF size = 0 THEN 0 ELSE @,
                         !.buffer = make_fit(@, size)]}})
    : c1 \in {get_text_length(c0)}})

\* the replacement inserted at the caret, not at the lower end of the selection
insert_replacement_at_caret(c0, start, replace) ==
    IF Len(replace) = 0 THEN c0
    ELSE IF c0.selection_end > Len(c0.buffer) THEN Abort(c0)
    ELSE text_buffer_changed(
             [c0 EXCEPT !.buffer = insert_at(c0.buffer, c0.selection_end, replace)])

\* lines 434-437
insert_replacement(c0, start, replace) ==
    IF Len(replace) = 0 THEN c0
    ELSE IF start > Len(c0.buffer) THEN Abort(c0)
    ELSE text_buffer_changed([c0 EXCEPT !.buffer = insert_at(c0.buffer, start, replace)])

\* lines 439-451: the line is measured and, where the limit is honoured and
\* text_width exceeds the format rectangle, trimmed
honor_width_limit(c0, honor_limit, start, replace_length) ==
    LET fw == c0.format_right - c0.format_left IN
    Only({IF ~Ok(c1) THEN c1 ELSE
    Only({IF ~Ok(c2) THEN c2 ELSE
    IF honor_limit /\ c2.text_width > fw
    THEN Only({IF ~Ok(d) THEN d ELSE text_buffer_changed(d)
         : d \in {trim_loop(c2, fw, start, replace_length)}})
    ELSE c2
    : c2 \in {calculate_line_width(c1)}})
    : c1 \in {invalidate_uniscribe_data(c0)}})

\* lines 509-520: the caret goes behind the replacement, the format rectangle
\* is invalidated and the caret scrolled into view
place_caret_after(c0, position) ==
    Only({IF ~Ok(c1) THEN c1 ELSE
    Only({IF ~Ok(c2) THEN c2 ELSE
    invalidate_uniscribe_data(update_scroll_info(c2))
    : c2 \in {scroll_caret([c1 EXCEPT !.fx_inval_rect = @ + 1])}})
    : c1 \in {set_selection(c0, Some(position), Some(position))}})

\* replace_selection that drops the undo record of an edit that cannot be
\* undone before it looks whether there is anything to replace
replace_selection_drops_undo(c0, can_undo, replace, honor_limit) ==
    LET start == Min(c0.selection_start, c0.selection_end)
        end   == Max(c0.selection_start, c0.selection_end)
    IN
    Only({IF ~Ok(c1) THEN c1 ELSE
    IF start = end /\ Len(replace) = 0
    THEN (IF can_undo THEN c1 ELSE empty_undo_buffer(c1)) ELSE
    Only({IF ~Ok(c2) THEN c2 ELSE
    Only({IF ~Ok(c3) THEN c3 ELSE
    Only({IF ~Ok(c4) THEN c4 ELSE
    Only({IF ~Ok(c5) THEN c5 ELSE
    Only({
    place_caret_after(c6, start + Len(replace))
    : c6 \in {IF Len(replace) # 0
               THEN undo_record_insert(c5, can_undo, start, replace) ELSE c5}})
    : c5 \in {IF end # start
               THEN undo_record_delete(c4, can_undo, start, end, c2.ret) ELSE c4}})
    : c4 \in {honor_width_limit(c3, honor_limit, start, Len(replace))}})
    : c3 \in {insert_replacement(c2, start, replace)}})
    : c2 \in {remove_selected(c1, start, end, Len(replace))}})
    : c1 \in {invalidate_uniscribe_data(c0)}})

replace_selection(c0, can_undo, replace, honor_limit) ==
    LET start == Min(c0.selection_start, c0.selection_end)
        end   == Max(c0.selection_start, c0.selection_end)
    IN
    Only({IF ~Ok(c1) THEN c1 ELSE
    IF start = end /\ Len(replace) = 0 THEN c1 ELSE
    Only({IF ~Ok(c2) THEN c2 ELSE
    Only({IF ~Ok(c3) THEN c3 ELSE
    Only({IF ~Ok(c4) THEN c4 ELSE
    Only({IF ~Ok(c5) THEN c5 ELSE
    Only({
    place_caret_after(c6, start + Len(replace))
    : c6 \in {IF Len(replace) # 0
               THEN undo_record_insert(c5, can_undo, start, replace) ELSE c5}})
    : c5 \in {IF end # start
               THEN undo_record_delete(c4, can_undo, start, end, c2.ret) ELSE c4}})
    : c4 \in {honor_width_limit(c3, honor_limit, start, Len(replace))}})
    : c3 \in {insert_replacement(c2, start, replace)}})
    : c2 \in {remove_selected(c1, start, end, Len(replace))}})
    : c1 \in {invalidate_uniscribe_data(c0)}})

\* set_text that replaces the current selection instead of the whole text
set_text_at_selection(c0, text) ==
    Only({IF ~Ok(c2) THEN c2 ELSE
    Only({
    Only({IF ~Ok(c4) THEN c4 ELSE
    Only({IF ~Ok(c5) THEN c5 ELSE
    invalidate_uniscribe_data(update_scroll_info(c5))
    : c5 \in {scroll_caret(c4)}})
    : c4 \in {set_selection(c3, Some(0), Some(0))}})
    : c3 \in {[c2 EXCEPT !.x_offset = 0]}})
    : c2 \in {replace_selection(c0, FALSE, text, FALSE)}})

set_text(c0, text) ==
    Only({IF ~Ok(c1) THEN c1 ELSE
    Only({IF ~Ok(c2) THEN c2 ELSE
    Only({
    Only({IF ~Ok(c4) THEN c4 ELSE
    Only({IF ~Ok(c5) THEN c5 ELSE
    invalidate_uniscribe_data(update_scroll_info(c5))
    : c5 \in {scroll_caret(c4)}})
    : c4 \in {set_selection(c3, Some(0), Some(0))}})
    : c3 \in {[c2 EXCEPT !.x_offset = 0]}})
    : c2 \in {replace_selection(c1, FALSE, text, FALSE)}})
    : c1 \in {set_selection(c0, Some(0), None)}})

clear(c) == replace_selection(c, TRUE, <<>>, TRUE)

\* move_end that extends from the caret, not from the anchor
move_end_from_caret(c0, extend) ==
    Only({
    LET end == Unwrap(c1.cached_text_length) IN
    Only({IF ~Ok(c2) THEN c2 ELSE scroll_caret(c2)
    : c2 \in {set_selection(c1, Some(IF extend THEN c1.selection_end ELSE end), Some(end))}})
    : c1 \in {get_text_length(c0)}})

move_end(c0, extend) ==
    Only({
    LET end == Unwrap(c1.cached_text_length) IN
    Only({IF ~Ok(c2) THEN c2 ELSE scroll_caret(c2)
    : c2 \in {set_selection(c1, Some(IF extend THEN c1.selection_start ELSE end), Some(end))}})
    : c1 \in {get_text_length(c0)}})

move_home(c0, extend) ==
    Only({IF ~Ok(c1) THEN c1 ELSE scroll_caret(c1)
    : c1 \in {set_selection(c0, Some(IF extend THEN c0.selection_start ELSE 0), Some(0))}})

move_forward(c0, extend) ==
    Only({
    LET e == IF Unwrap(c1.cached_text_length) > c1.selection_end
             THEN c1.selection_end + 1 ELSE c1.selection_end
    IN
    Only({IF ~Ok(c2) THEN c2 ELSE scroll_caret(c2)
    : c2 \in {set_selection(c1, Some(IF extend THEN c1.selection_start ELSE e), Some(e))}})
    : c1 \in {get_text_length(c0)}})

\* move_backward that never extends the selection
move_backward_collapsing(c0, extend) ==
    LET e == IF c0.selection_end > 0 THEN c0.selection_end - 1 ELSE c0.selection_end
    IN  Only({IF ~Ok(c1) THEN c1 ELSE scroll_caret(c1)
    : c1 \in {set_selection(c0, Some(e), Some(e))}})

move_backward(c0, extend) ==
    LET e == IF c0.selection_end > 0 THEN c0.selection_end - 1 ELSE c0.selection_end
    IN  Only({IF ~Ok(c1) THEN c1 ELSE scroll_caret(c1)
    : c1 \in {set_selection(c0, Some(IF extend THEN c0.selection_start ELSE e), Some(e))}})

(***************************************************************************)
(* Message handlers.  A nested SendMessageW runs the inner handler and     *)
(* drops its Result, as window_proc does.                                  *)
(***************************************************************************)
Swallow(c) == [c EXCEPT !.err = FALSE]

on_copy(c0) ==
    LET start == Min(c0.selection_start, c0.selection_end)
        end   == Max(c0.selection_start, c0.selection_end)
    IN  IF end = start THEN c0 ELSE
        Only({IF ~Ok(c1) THEN c1 ELSE
        IF end > Len(c1.buffer) THEN Abort(c1) ELSE
        Only({IF ~Ok(c2) THEN c2 ELSE
        Only({IF ~Ok(c3) THEN c3 ELSE
        Only({IF ~Ok(c4) THEN c4 ELSE
        Only({IF ~Ok(c5) THEN c5 ELSE
        Only({
        HostCall(c6)                \* CloseClipboard
        : c6 \in {[c5 EXCEPT !.fx_copied = Some(SubSeq(c5.buffer, start + 1, end))]}})
        : c5 \in {HostCall(c4)}})   \* SetClipboardData
        : c4 \in {HostCall(c3)}})   \* EmptyClipboard
        : c3 \in {HostCall(c2)}})   \* OpenClipboard
        : c2 \in {HostCall(c1)}})   \* GlobalUnlock
        : c1 \in {HostCall(c0)}})   \* GlobalAlloc

on_cut(c0) ==
    Only({IF ~Ok(c1) THEN c1 ELSE clear(c1)
    : c1 \in {on_copy(c0)}})

\* the clipboard string cut at its first line feed only
paste_text_keeping_cr(string) ==
    IF \E i \in 1..Len(string) : string[i] = LF
    THEN SubSeq(string, 1,
                (CHOOSE i \in 1..Len(string) :
                     string[i] = LF /\ \A j \in 1..(i - 1) : string[j] # LF) - 1)
    ELSE string

\* the code units of the clipboard string that on_paste inserts
paste_text(string) ==
    IF \E i \in 1..Len(string) : string[i] = LF
    THEN LET position == (CHOOSE i \in 1..Len(string) :
                              string[i] = LF /\ \A j \in 1..(i - 1) : string[j] # LF) - 1
             len == IF position > 0 /\ string[position] = CR THEN position - 1 ELSE position
         IN  SubSeq(string, 1, len)
    ELSE string

\* clip: Some(text) when the clipboard holds CF_UNICODETEXT, None for an invalid handle
on_paste(c0, clip) ==
    Only({IF ~Ok(c1) THEN c1 ELSE
    Only({IF ~Ok(c2) THEN c2 ELSE
    Only({IF ~Ok(c3) THEN c3 ELSE
    HostCall(c3)                    \* CloseClipboard
    : c3 \in {IF IsSome(clip)
        THEN Only({IF ~Ok(d) THEN d ELSE
        HostCall(d)                 \* GlobalUnlock
        : d \in {replace_selection(c2, TRUE, paste_text(Unwrap(clip)), TRUE)}})
        ELSE IF c2.input_type = "Password"
             THEN replace_selection(c2, TRUE, <<>>, TRUE)
             ELSE c2}})
    : c2 \in {HostCall(c1)}})       \* GetClipboardData
    : c1 \in {HostCall(c0)}})       \* OpenClipboard

on_undo(c0) ==
    LET text == c0.undo_buffer IN
    Only({IF ~Ok(c1) THEN c1 ELSE
    Only({
    Only({IF ~Ok(c3) THEN c3 ELSE
    Only({IF ~Ok(c4) THEN c4 ELSE
    scroll_caret(c4)
    : c4 \in {set_selection(c3, Some(c3.undo_position),
                      Some(c3.undo_position + c3.undo_insert_count))}})
    : c3 \in {replace_selection(c2, TRUE, as_wide(text), TRUE)}})
    : c2 \in {[c1 EXCEPT !.undo_buffer = empty(@)]}})
    : c1 \in {set_selection(c0, Some(c0.undo_position),
                      Some(c0.undo_position + c0.undo_insert_count))}})

on_char(c0, char, control, clip) ==
    IF char = BACK
    THEN IF control THEN c0
         ELSE IF c0.selection_start # c0.selection_end THEN clear(c0)
         ELSE Only({IF ~Ok(c1) THEN c1 ELSE
              Only({IF ~Ok(c2) THEN c2 ELSE clear(c2)
              : c2 \in {move_backward(c1, TRUE)}})
         : c1 \in {set_selection(c0, None, None)}})
    ELSE IF char = CTRL_C
    THEN IF c0.input_type = "Password" THEN c0 ELSE Swallow(on_copy(c0))
    ELSE IF char = CTRL_V THEN Swallow(on_paste(c0, clip))
    ELSE IF char = CTRL_X
    THEN IF c0.input_type = "Password" THEN c0 ELSE Swallow(on_cut(c0))
    ELSE IF char = CTRL_Z THEN Swallow(on_undo(c0))
    ELSE IF c0.input_type = "Number" THEN c0
    ELSE IF char >= SPACE /\ char # DEL THEN replace_selection(c0, TRUE, <<char>>, TRUE)
    ELSE c0

on_key_down(c0, key, shift, control, alt, clip) ==
    IF alt THEN c0
    ELSE IF key = "LEFT" THEN move_backward(c0, shift)
    ELSE IF key = "RIGHT" THEN move_forward(c0, shift)
    ELSE IF key = "HOME" THEN move_home(c0, shift)
    ELSE IF key = "END" THEN move_end(c0, shift)
    ELSE IF key = "DELETE"
    THEN IF shift /\ control THEN c0
         ELSE IF c0.selection_start # c0.selection_end
         THEN IF shift THEN on_cut(c0) ELSE clear(c0)
         ELSE Only({IF ~Ok(c1) THEN c1 ELSE
              Only({IF ~Ok(c2) THEN c2 ELSE
              clear(c2)
              : c2 \in {IF shift THEN move_backward(c1, TRUE)
                  ELSE IF control THEN move_end(c1, FALSE)
                  ELSE move_forward(c1, TRUE)}})
         : c1 \in {set_selection(c0, None, Some(0))}})
    ELSE IF key = "INSERT"
    THEN IF shift THEN on_paste(c0, clip)
         ELSE IF control THEN on_copy(c0)
         ELSE c0
    ELSE IF key = "A"
    THEN IF control
         THEN Only({
              set_selection(c1, Some(0), Some(Unwrap(c1.cached_text_length)))
         : c1 \in {get_text_length(c0)}})
         ELSE c0
    ELSE c0

\* ScriptStringXtoCP(ssa, iX, &index, &trailing)?  -> ret = index (+1 when trailing)
ScriptStringXtoCP(c, iX) ==
    Only({IF ~Ok(d) THEN d ELSE
        IF ~IsSome(d.ssa) THEN [d EXCEPT !.err = TRUE]
        ELSE LET n == Len(Unwrap(d.ssa))
             IN  [d EXCEPT !.ret =
                     IF iX < 0 THEN 0
                     ELSE IF iX >= GlyphAdvance * n THEN n
                     ELSE (iX \div GlyphAdvance)
                          + (IF 2 * (iX % GlyphAdvance) >= GlyphAdvance THEN 1 ELSE 0)]
    : d \in {HostCall(c)}})

\* char_from_position(..)?  -> ret
char_from_position(c0, point_x) ==
    LET x == point_x - c0.format_left
    IN  IF x = 0 THEN [c0 EXCEPT !.ret = c0.x_offset] ELSE
    Only({IF ~Ok(c1) THEN c1 ELSE
    Only({
    LET has    == IsSome(c1.ssa)
        inside == c1.x_offset # 0 /\ has /\ c1.x_offset < Unwrap(c2.cached_text_length)
    IN
    Only({IF ~Ok(c3) THEN c3 ELSE
    LET x_off == IF c1.x_offset = 0 \/ ~has THEN 0
                 ELSE IF inside THEN c3.ret
                 ELSE ScriptString_pSize_cx(Unwrap(c3.ssa))
    IN  IF x < 0
        THEN IF x + x_off > 0 \/ ~has
             THEN ScriptStringXtoCP(c3, x + x_off)
             ELSE [c3 EXCEPT !.ret = 0]
        ELSE Only({
             IF has THEN ScriptStringXtoCP(c4, x + x_off) ELSE [c4 EXCEPT !.ret = 0]
        : c4 \in {get_text_length(c3)}})
    : c3 \in {IF inside THEN ScriptStringCPtoX(c2, c2.x_offset) ELSE c2}})
    : c2 \in {IF c1.x_offset # 0 THEN get_text_length(c1) ELSE c1}})
    : c1 \in {update_uniscribe_data(c0)}})

set_focus(c0) ==
    Only({
    Only({IF ~Ok(c1) THEN c1 ELSE
    Only({IF ~Ok(c2) THEN c2 ELSE
    Only({IF ~Ok(c3) THEN c3 ELSE
    Only({IF ~Ok(c4) THEN c4 ELSE
    Only({IF ~Ok(c5) THEN c5 ELSE
    [c5 EXCEPT !.fx_inval_rect = @ + 1]
    : c5 \in {HostCall(c4)}})       \* the transition and its scheduling
    : c4 \in {HostCall(c3)}})       \* ShowCaret
    : c3 \in {set_caret_position(c2, c2.selection_end)}})
    : c2 \in {HostCall(c1)}})       \* CreateCaret
    : c1 \in {invalidate_text(f, f.selection_start, f.selection_end)}})
    : f \in {[c0 EXCEPT !.is_focused = TRUE]}})

on_kill_focus(c0) ==
    Only({
    Only({IF ~Ok(c1) THEN c1 ELSE
    Only({IF ~Ok(c2) THEN c2 ELSE
    [c2 EXCEPT !.fx_inval_rect = @ + 1]
    : c2 \in {invalidate_text(c1, c1.selection_start, c1.selection_end)}})
    : c1 \in {HostCall(f)}})        \* DestroyCaret
    : f \in {[c0 EXCEPT !.is_focused = FALSE]}})

\* ScriptBreak: one SCRIPT_LOGATTR per code unit, <<fSoftBreak, fWhiteSpace>>;
\* a line may break before a code unit that follows white space
ScriptBreak(text) ==
    [i \in 1..Len(text) |-> <<i > 1 /\ text[i - 1] = SPACE, text[i] = SPACE>>]

\* fills the attribute table when it is empty
word_break_table(c0) ==
    IF IsSome(c0.log_attribute) THEN c0
    ELSE Only({IF ~Ok(c1) THEN c1 ELSE
         LET n == Unwrap(c1.cached_text_length)
         IN  [c1 EXCEPT !.log_attribute =
                 Some(ScriptBreak(SubSeq(c1.buffer, 1, Min(n, Len(c1.buffer)))))]
    : c1 \in {HostCall(c0)}})

RECURSIVE wb_left(_, _)
wb_left(attr, index) ==
    IF index # 0 /\ ~attr[index + 1][1] THEN wb_left(attr, index - 1) ELSE index

RECURSIVE wb_right(_, _, _)
wb_right(attr, index, count) ==
    IF index < count /\ ~attr[index + 1][1] THEN wb_right(attr, index + 1, count) ELSE index

\* word_break_proc(context, index, count, action)?  -> ret; action is WB_LEFT or WB_RIGHT
word_break_proc(c0, index, count, action) ==
    Only({
    IF Unwrap(c1.cached_text_length) = 0 THEN [c1 EXCEPT !.ret = 0] ELSE
    Only({IF ~Ok(c2) THEN c2 ELSE
    LET attr == Unwrap(c2.log_attribute)
        i0   == IF action = "WB_LEFT" /\ index # 0 THEN index - 1 ELSE index
    IN  IF action = "WB_LEFT"
        THEN IF i0 >= Len(attr) THEN Abort(c2) ELSE [c2 EXCEPT !.ret = wb_left(attr, i0)]
        ELSE IF count = 0 THEN [c2 EXCEPT !.ret = 0]
        ELSE IF count > Len(attr) THEN Abort(c2)
        ELSE [c2 EXCEPT !.ret = wb_right(attr, i0, count)]
    : c2 \in {word_break_table(c1)}})
    : c1 \in {get_text_length(c0)}})

on_double_click(c0) ==
    Only({
    LET length == Unwrap(c1.cached_text_length) IN
    Only({IF ~Ok(c2) THEN c2 ELSE
    Only({IF ~Ok(c3) THEN c3 ELSE
    Only({IF ~Ok(c4) THEN c4 ELSE
    scroll_caret(c4)
    : c4 \in {set_selection(c3, Some(c2.ret), Some(c3.ret))}})
    : c3 \in {word_break_proc(c2, c2.selection_end, length, "WB_RIGHT")}})
    : c2 \in {word_break_proc(c1, c1.selection_end, length, "WB_LEFT")}})
    : c1 \in {get_text_length([c0 EXCEPT !.is_captured = TRUE, !.sys_capture = TRUE])}})

on_left_button_down(c0, shift, x0) ==
    LET x == Min(Max(x0, c0.format_left), c0.format_right - 1) IN
    Only({
    Only({IF ~Ok(c1) THEN c1 ELSE
    LET end == c1.ret IN
    Only({IF ~Ok(c2) THEN c2 ELSE
    Only({IF ~Ok(c3) THEN c3 ELSE
    IF ~c3.is_focused
    \* SetFocus sends WM_SETFOCUS and then returns its own result
    THEN Only({ HostCall(c4)
    : c4 \in {Swallow(set_focus(c3))}})
    ELSE c3
    : c3 \in {scroll_caret(c2)}})
    : c2 \in {set_selection(c1, Some(IF shift THEN c1.selection_start ELSE end), Some(end))}})
    : c1 \in {char_from_position(f, x)}})
    : f \in {[c0 EXCEPT !.is_captured = TRUE, !.sys_capture = TRUE]}})

on_left_button_up(c0) ==
    IF c0.is_captured
    THEN Only({IF ~Ok(c1) THEN c1 ELSE
             [c1 EXCEPT !.is_captured = FALSE, !.sys_capture = FALSE]
    \* ReleaseCapture
    : c1 \in {IF c0.sys_capture THEN HostCall(c0) ELSE c0}})
    ELSE c0

on_mouse_move(c0, x) ==
    IF ~c0.is_captured \/ ~c0.sys_capture THEN c0 ELSE
    Only({IF ~Ok(c1) THEN c1 ELSE
    Only({IF ~Ok(c2) THEN c2 ELSE
    Only({IF ~Ok(c3) THEN c3 ELSE
    scroll_caret(c3)
    : c3 \in {set_caret_position(c2, c2.selection_end)}})
    : c2 \in {set_selection(c1, Some(c1.selection_start), Some(c1.ret))}})
    : c1 \in {char_from_position(c0, x)}})

\* on_paint with paint_line: re-analyses the text; nothing else of Context changes
on_paint(c0) ==
    Only({IF ~Ok(g) THEN g ELSE
    Only({IF ~Ok(c1) THEN c1 ELSE
    Only({
    IF Unwrap(c2.cached_text_length) = 0 THEN c2 ELSE
    Only({IF ~Ok(c3) THEN c3 ELSE
    Only({IF ~Ok(c4) THEN c4 ELSE
    Only({IF ~Ok(c5) THEN c5 ELSE
    HostCall(c5)                    \* ScriptStringOut
    : c5 \in {position_from_char(c4, 0)}})
    : c4 \in {update_uniscribe_data(c3)}})
    : c3 \in {invalidate_uniscribe_data(c2)}})
    : c2 \in {get_text_length(c1)}})
    : c1 \in {get_single_line_rect(g, 0, None)}})
    : g \in {HostCall(c0)}})        \* GetClientRect

\* border (1.0) and horizontal padding (spacing_horizontal_m) at scaling factor 1
HorizontalInset == 1 + 12

\* set_rect_np and adjust_format_rect for a client area client_width wide
set_rect_np(c0, client_width) ==
    Only({IF ~Ok(c1) THEN c1 ELSE
    LET left  == HorizontalInset
        right == Max(client_width - HorizontalInset, left + c1.char_width)
    IN
    Only({
    Only({IF ~Ok(c3) THEN c3 ELSE
    set_caret_position(c3, c3.selection_end)
    : c3 \in {HostCall(c2)}})       \* GetClientRect of adjust_format_rect
    : c2 \in {[c1 EXCEPT !.format_left = left, !.format_right = right]}})
    : c1 \in {HostCall(c0)}})       \* GetClientRect

\* WM_DPICHANGED_BEFOREPARENT: new font metrics, then set_rect_np
on_dpi_changed(c0, client_width) ==
    Only({
    IF ~Ok(c1) THEN Swallow(c1)
    ELSE Only({
         Swallow(set_rect_np(c2, client_width))
    : c2 \in {[c1 EXCEPT !.char_width = GlyphAdvance]}})
    : c1 \in {HostCall(c0)}})       \* SetWindowPos

(***************************************************************************)
(* The input field as a state machine: one action per window message.      *)
(***************************************************************************)
InputTypes == {"Text", "Number", "Password"}
\* client widths a field is created with or resized to
ClientWidths == {28, 30}
\* default values and WM_SETTEXT texts
Texts == {<<>>, <<65>>, <<49, 65, 65>>}
\* clipboard strings another program may have left
ClipTexts == {<<49>>, <<65, 49>>, <<65, CR, LF, 49>>}
\* client x coordinates of mouse messages
MouseXs == {5, 14, 16, 25}
\* code units of WM_CHAR
CharCodes == Printable \cup {BACK, CTRL_C, CTRL_V, CTRL_X, CTRL_Z, DEL}

\* on_create: the Context a new field starts with
on_create(input_type) ==
    [input_type |-> input_type,
     cached_text_length |-> None,
     buffer |-> StringBuffer_new,
     x_offset |-> 0,
     undo_insert_count |-> 0,
     undo_position |-> 0,
     undo_buffer |-> StringBuffer_new,
     selection_start |-> 0,
     selection_end |-> 0,
     is_captured |-> FALSE,
     is_focused |-> FALSE,
     format_left |-> 0,
     format_right |-> 0,
     char_width |-> GlyphAdvance,
     text_width |-> 0,
     log_attribute |-> None,
     ssa |-> None,
     sys_capture |-> FALSE,
     err |-> FALSE, aborted |-> FALSE, fuel |-> 0, ret |-> 0,
     fx_inval |-> <<>>, fx_inval_rect |-> 0, fx_copied |-> None]

\* WM_CREATE: on_create, set_rect_np, then the default value
wm_create(input_type, client_width, default_value) ==
    Only({
    Only({IF ~Ok(c1) THEN c1 ELSE
        IF IsSome(default_value)
        THEN replace_selection(c1, FALSE, Unwrap(default_value), FALSE)
        ELSE c1
    : c1 \in {set_rect_np(c0, client_width)}})
    : c0 \in {on_create(input_type)}})

\* what a handler leaves in the window's Context once it has returned
Settle(c) ==
    [c EXCEPT !.err = FALSE, !.fuel = 0, !.ret = 0,
              !.fx_inval = <<>>, !.fx_inval_rect = 0, !.fx_copied = None]

\* the Vecs of the two StringBuffers only ever grow; the model lets a handler
\* grow one only up to MaxVec elements
Fits(c) ==
    /\ Len(c.buffer) <= Max(MaxVec, Len(context.buffer))
    /\ Len(c.undo_buffer) <= Max(MaxVec, Len(context.undo_buffer))

\* which host call of the next handler fails: none (0), or one of the first
\* MaxFuel while the run still has a failure to spend
Fuels == IF faults > 0 THEN 0..MaxFuel ELSE {0}

Armed(fuel) == [context EXCEPT !.fuel = fuel]

\* the message is handled to the end with the chosen host call failing
Handle(fuel, result) ==
    \E c \in {result} :
        /\ ~context.aborted
        /\ Fits(c)
        /\ fuel > 0 => c.fuel = 0
        /\ context' = Settle(c)
        /\ faults' = IF fuel > 0 THEN faults - 1 ELSE faults
        /\ UNCHANGED <<menus, tracker, popup>>

WM_CHAR ==
    \E fuel \in Fuels, char \in CharCodes, control \in BOOLEAN, clip \in ClipTexts :
        /\ control => char = BACK
        /\ char # CTRL_V => clip = <<49>>
        /\ Handle(fuel, on_char(Armed(fuel), char, control, Some(clip)))

WM_KEYDOWN ==
    \E fuel \in Fuels, key \in Keys, shift \in BOOLEAN, control \in BOOLEAN,
       alt \in BOOLEAN, clip \in ClipTexts :
        /\ alt => key = "OTHER" /\ ~shift /\ ~control
        /\ control => key \in {"DELETE", "INSERT", "A"}
        /\ ~(key = "INSERT" /\ shift) => clip = <<49>>
        /\ Handle(fuel,
                  on_key_down(Armed(fuel), key, shift, control, alt, Some(clip)))

WM_CLEAR ==
    \E fuel \in Fuels : Handle(fuel, clear(Armed(fuel)))

WM_COPY ==
    \E fuel \in Fuels : Handle(fuel, on_copy(Armed(fuel)))

WM_CUT ==
    \E fuel \in Fuels : Handle(fuel, on_cut(Armed(fuel)))

WM_PASTE ==
    \E fuel \in Fuels, clip \in {Some(t) : t \in ClipTexts} \cup {None} :
        Handle(fuel, on_paste(Armed(fuel), clip))

WM_UNDO ==
    \E fuel \in Fuels : Handle(fuel, on_undo(Armed(fuel)))

WM_SETTEXT ==
    \E fuel \in Fuels, text \in Texts :
        Handle(fuel, set_text(Armed(fuel), text))

WM_SETFOCUS ==
    \E fuel \in Fuels :
        /\ ~context.is_focused
        /\ Handle(fuel, set_focus(Armed(fuel)))

WM_KILLFOCUS ==
    \E fuel \in Fuels :
        /\ context.is_focused
        /\ Handle(fuel, on_kill_focus(Armed(fuel)))

WM_LBUTTONDOWN ==
    \E fuel \in Fuels, shift \in BOOLEAN, x \in MouseXs :
        Handle(fuel, on_left_button_down(Armed(fuel), shift, x))

WM_LBUTTONDBLCLK ==
    \E fuel \in Fuels :
        Handle(fuel, on_double_click(Armed(fuel)))

WM_LBUTTONUP ==
    \E fuel \in Fuels :
        Handle(fuel, on_left_button_up(Armed(fuel)))

WM_MOUSEMOVE ==
    \E fuel \in Fuels, x \in MouseXs :
        Handle(fuel, on_mouse_move(Armed(fuel), x))

WM_PAINT ==
    \E fuel \in Fuels : Handle(fuel, on_paint(Armed(fuel)))

WM_IME_COMPOSITION ==
    \E fuel \in Fuels :
        Handle(fuel,
               replace_selection(Armed(fuel), TRUE, <<>>, TRUE))

WM_DPICHANGED ==
    \E fuel \in Fuels, client_width \in ClientWidths :
        Handle(fuel, on_dpi_changed(Armed(fuel), client_width))

\* another window takes the mouse capture
CaptureLost ==
    /\ context.sys_capture
    /\ Handle(0, [context EXCEPT !.sys_capture = FALSE])

(***************************************************************************)
(* The popup-menu tracker (qt/src/component/menu.rs)                       *)
(*                                                                         *)
(* `menus` is the heap of Menu nodes, indexed by the node's identity (the  *)
(* Rc pointer), the top menu being node 1.  Item indices are the code's,   *)
(* counted from 0.  The operators below work on a record t that joins the  *)
(* Tracker, the heap, the host's popup windows and the locals of           *)
(* track_menu.  Texts, rectangles and drawing are left out: every item     *)
(* owns the part of its popup that the pointer hits.                       *)
(***************************************************************************)
\* enum MenuItem
MenuItem(id, disabled) ==
    [kind |-> "MenuItem", id |-> id, disabled |-> disabled, sub_menu |-> 0]
SubMenu(sub_menu) ==
    [kind |-> "SubMenu", id |-> 0, disabled |-> FALSE, sub_menu |-> sub_menu]
MenuDivider ==
    [kind |-> "MenuDivider", id |-> 0, disabled |-> FALSE, sub_menu |-> 0]

Menu(items) == [items |-> items, window |-> None, focused_item_index |-> None]

\* menu.items[index]
item_at(menu, index) == menu.items[index + 1]

MenuKeys ==
    {"MENU", "F10", "HOME", "END", "UP", "DOWN", "LEFT", "RIGHT", "ESCAPE", "OTHER"}

\* the menu trees handed to open_menu
MenuLists ==
    { << Menu(<<MenuItem(1, FALSE), MenuItem(2, TRUE), MenuDivider, SubMenu(2)>>),
         Menu(<<MenuDivider, SubMenu(3), MenuItem(3, FALSE)>>),
         Menu(<<MenuItem(4, FALSE), MenuDivider>>) >>,
      << Menu(<<MenuDivider, SubMenu(2), MenuDivider, MenuDivider, SubMenu(3),
                MenuItem(1, FALSE), MenuDivider>>),
         Menu(<<MenuDivider, MenuDivider>>),
         Menu(<< >>) >> }

\* the item the menu's focus is on, when it is a SubMenu item
FocusedSubMenu(menu) ==
    IF IsSome(menu.focused_item_index)
       /\ item_at(menu, Unwrap(menu.focused_item_index)).kind = "SubMenu"
    THEN Some(item_at(menu, Unwrap(menu.focused_item_index)).sub_menu)
    ELSE None

\* the redraw of the popup is not modelled
select_item(menu, index) == [menu EXCEPT !.focused_item_index = index]

RECURSIVE select_previous_loop(_, _)
select_previous_loop(menu, item_index) ==
    IF item_index > 0
    THEN IF item_at(menu, item_index - 1).kind = "MenuDivider"
         THEN select_previous_loop(menu, item_index - 1)
         ELSE select_item(menu, Some(item_index - 1))
    ELSE menu

select_previous(menu) ==
    IF IsSome(menu.focused_item_index)
    THEN select_previous_loop(menu, Unwrap(menu.focused_item_index))
    ELSE menu

\* select_next without the test for dividers
select_next_onto_divider(menu, item_index) ==
    IF item_index + 1 < Len(menu.items)
    THEN select_item(menu, Some(item_index + 1))
    ELSE menu

RECURSIVE select_next_loop(_, _)
select_next_loop(menu, item_index) ==
    IF item_index + 1 < Len(menu.items)
    THEN IF item_at(menu, item_index + 1).kind = "MenuDivider"
         THEN select_next_loop(menu, item_index + 1)
         ELSE select_item(menu, Some(item_index + 1))
    ELSE menu

select_next(menu) ==
    IF IsSome(menu.focused_item_index)
    THEN select_next_loop(menu, Unwrap(menu.focused_item_index))
    ELSE menu

RECURSIVE select_first_loop(_, _)
select_first_loop(menu, item_index) ==
    IF item_index < Len(menu.items)
    THEN IF item_at(menu, item_index).kind = "MenuDivider"
         THEN select_first_loop(menu, item_index + 1)
         ELSE select_item(menu, Some(item_index))
    ELSE menu

select_first(menu) == select_first_loop(menu, 0)

RECURSIVE select_last_loop(_, _)
select_last_loop(menu, item_index) ==
    IF item_index >= 0
    THEN IF item_at(menu, item_index).kind = "MenuDivider"
         THEN select_last_loop(menu, item_index - 1)
         ELSE select_item(menu, Some(item_index))
    ELSE menu

select_last(menu) == select_last_loop(menu, Len(menu.items) - 1)

\* CreateWindowExW hands out a handle that no live window has
NewWindow(windows) ==
    CHOOSE h \in 1..(Cardinality(windows) + 1) :
        h \notin windows /\ \A g \in 1..(h - 1) : g \in windows

\* the placement of the popup is show_popup_place; it is not part of t
show_popup(t, m) == [t EXCEPT !.menus[m].focused_item_index = None]

\* show_popup without the final raise to the left and top edges
show_popup_place_unclamped(x0, y0, width, height, x_anchor, y_anchor, rcWork) ==
    LET x1 == IF x0 + width > rcWork.right /\ x_anchor # 0 /\ x0 >= width - x_anchor
              THEN x0 - width - x_anchor
              ELSE x0
        x2 == IF x0 + width > rcWork.right /\ x1 + width > rcWork.right
              THEN rcWork.right - width
              ELSE x1
        y1 == IF y0 + height > rcWork.bottom /\ y_anchor # 0 /\ y0 >= height + y_anchor
              THEN y0 - (height + y_anchor)
              ELSE y0
        y2 == IF y0 + height > rcWork.bottom /\ y1 + height > rcWork.bottom
              THEN rcWork.bottom - height
              ELSE y1
    IN  [x |-> x2, y |-> y2]

\* show_popup, where the popup goes: the requested corner (x0, y0), the size
\* calc_popup_menu_size found, the anchor offsets and the work area of the
\* monitor
show_popup_place(x0, y0, width, height, x_anchor, y_anchor, rcWork) ==
    LET x1 == IF x0 + width > rcWork.right /\ x_anchor # 0 /\ x0 >= width - x_anchor
              THEN x0 - width - x_anchor
              ELSE x0
        x2 == IF x0 + width > rcWork.right /\ x1 + width > rcWork.right
              THEN rcWork.right - width
              ELSE x1
        x3 == IF x2 < rcWork.left THEN rcWork.left ELSE x2
        y1 == IF y0 + height > rcWork.bottom /\ y_anchor # 0 /\ y0 >= height + y_anchor
              THEN y0 - (height + y_anchor)
              ELSE y0
        y2 == IF y0 + height > rcWork.bottom /\ y1 + height > rcWork.bottom
              THEN rcWork.bottom - height
              ELSE y1
        y3 == IF y2 < rcWork.top THEN rcWork.top ELSE y2
    IN  [x |-> x3, y |-> y3]

\* WM_CREATE of the popup window
menu_on_create(t, m) == show_popup(t, m)

\* a host call made during one turn of the loop: it fails when it is the call
\* of the turn that the host refuses, or when its handle is not a window
MenuHostCall(t, valid) ==
    [t EXCEPT !.calls = @ + 1, !.err = (t.calls + 1 = t.fail) \/ ~valid]

init_popup(t0, m) ==
    Only({
    IF t1.err THEN t1 ELSE
    Only({
    [t2 EXCEPT !.menus[m].window = Some(NewWindow(t0.windows)),
               !.windows = @ \cup {NewWindow(t0.windows)}]
    : t2 \in {menu_on_create(t1, m)}})
    \* CreateWindowExW
    : t1 \in {MenuHostCall(t0, t0.owner)}})

show_sub_popup(t0, m) ==
    IF IsSome(FocusedSubMenu(t0.menus[m])) /\ IsSome(t0.menus[m].window)
    THEN Only({
         IF t1.err THEN t1 ELSE
         Only({
         IF t2.err THEN t2
         ELSE [t2 EXCEPT !.ret = Unwrap(FocusedSubMenu(t0.menus[m]))]
         : t2 \in {init_popup(t1, Unwrap(FocusedSubMenu(t0.menus[m])))}})
         \* GetWindowRect
         : t1 \in {MenuHostCall(t0, Unwrap(t0.menus[m].window) \in t0.windows)}})
    ELSE [t0 EXCEPT !.ret = m]

\* the reset of the sub menu's focus, DestroyWindow and the reset of its window
destroy_sub_menu(t, sub_menu) ==
    IF IsSome(t.menus[sub_menu].window)
    THEN Only({
         IF t1.err THEN t1
         ELSE [t1 EXCEPT !.menus[sub_menu].window = None,
                         !.windows = @ \ {Unwrap(t.menus[sub_menu].window)}]
         : t1 \in {MenuHostCall([t EXCEPT !.menus[sub_menu] = select_item(@, None)],
                                Unwrap(t.menus[sub_menu].window) \in t.windows)}})
    ELSE [t EXCEPT !.menus[sub_menu] = select_item(@, None)]

\* hide_sub_popups that closes the focused sub menu's popup but not the
\* popups below it
hide_sub_popups_one_level(t0, m) ==
    IF IsSome(FocusedSubMenu(t0.menus[m]))
    THEN destroy_sub_menu(t0, Unwrap(FocusedSubMenu(t0.menus[m])))
    ELSE t0

RECURSIVE hide_sub_popups(_, _)
hide_sub_popups(t0, m) ==
    IF IsSome(FocusedSubMenu(t0.menus[m]))
    THEN Only({
         IF t1.err THEN t1
         ELSE destroy_sub_menu(t1, Unwrap(FocusedSubMenu(t0.menus[m])))
         : t1 \in {hide_sub_popups(t0, Unwrap(FocusedSubMenu(t0.menus[m])))}})
    ELSE t0

get_sub_popup(t, m) ==
    IF IsSome(FocusedSubMenu(t.menus[m]))
       /\ IsSome(t.menus[Unwrap(FocusedSubMenu(t.menus[m]))].window)
    THEN FocusedSubMenu(t.menus[m])
    ELSE None

\* WindowFromPoint: the popup under the point, 0 when it is over none
WindowFromPoint(point) == point.window

RECURSIVE menu_from_point(_, _, _)
menu_from_point(t, root, point) ==
    LET result == IF IsSome(FocusedSubMenu(t.menus[root]))
                  THEN menu_from_point(t, Unwrap(FocusedSubMenu(t.menus[root])), point)
                  ELSE None
    IN
    IF result = None
    THEN IF t.menus[root].window = Some(WindowFromPoint(point))
         THEN Some(root)
         ELSE None
    ELSE result

\* enum HitTest; the menus never scroll
Nowhere == [ht |-> "Nowhere", index |-> 0]
Border == [ht |-> "Border", index |-> 0]
Item(index) == [ht |-> "Item", index |-> index]

find_item_by_coordinates(menu, point) ==
    IF menu.window = Some(point.window)
    THEN IF IsSome(point.item) THEN Item(Unwrap(point.item)) ELSE Border
    ELSE Nowhere

\* switch_tracking without hide_sub_popups
switch_tracking_keeping_sub_popups(t0, m, new_index) ==
    [t0 EXCEPT !.menus[m] = select_item(@, Some(new_index))]

switch_tracking(t0, m, new_index) ==
    Only({
    IF t1.err THEN t1
    ELSE [t1 EXCEPT !.menus[m] = select_item(@, Some(new_index))]
    : t1 \in {hide_sub_popups(t0, m)}})

menu_button_down(t0, m, point) ==
    LET ht == find_item_by_coordinates(t0.menus[m], point) IN
    IF ht.ht = "Item"
    THEN Only({
         IF t1.err THEN t1
         ELSE IF item_at(t1.menus[m], ht.index).kind = "SubMenu"
            /\ ~IsSome(t1.menus[item_at(t1.menus[m], ht.index).sub_menu].window)
         THEN Only({
              IF t2.err THEN t2
              ELSE [t2 EXCEPT !.current_menu = t2.ret, !.ret = TRUE]
              : t2 \in {show_sub_popup(t1, item_at(t1.menus[m], ht.index).sub_menu)}})
         ELSE [t1 EXCEPT !.ret = TRUE]
         : t1 \in {IF t0.menus[m].focused_item_index # Some(ht.index)
                   THEN switch_tracking(t0, m, ht.index)
                   ELSE t0}})
    ELSE [t0 EXCEPT !.ret = (ht.ht # "Nowhere")]

\* execute_focused_item reporting Executed without PostMessageW
execute_focused_item_silent(t0, m) ==
    LET menu == t0.menus[m] IN
    IF IsSome(menu.focused_item_index)
       /\ item_at(menu, Unwrap(menu.focused_item_index)).kind = "MenuItem"
       /\ ~item_at(menu, Unwrap(menu.focused_item_index)).disabled
    THEN [t0 EXCEPT !.ret = "Executed"]
    ELSE [t0 EXCEPT !.ret = "NoExecuted"]

\* execute_focused_item posting a disabled item's command too
execute_focused_item_ignoring_disabled(t0, m) ==
    LET menu == t0.menus[m] IN
    IF IsSome(menu.focused_item_index)
       /\ item_at(menu, Unwrap(menu.focused_item_index)).kind = "MenuItem"
    THEN [t0 EXCEPT !.posted = Append(@, item_at(menu, Unwrap(menu.focused_item_index)).id),
                    !.ret = "Executed"]
    ELSE [t0 EXCEPT !.ret = "NoExecuted"]

execute_focused_item(t0, m) ==
    LET menu == t0.menus[m] IN
    IF IsSome(menu.focused_item_index)
    THEN LET item == item_at(menu, Unwrap(menu.focused_item_index)) IN
         CASE item.kind = "MenuItem" ->
                  IF item.disabled
                  THEN [t0 EXCEPT !.ret = "NoExecuted"]
                  ELSE Only({
                       IF t1.err THEN t1
                       ELSE [t1 EXCEPT !.posted = Append(@, item.id),
                                       !.ret = "Executed"]
                       \* PostMessageW(WM_COMMAND)
                       : t1 \in {MenuHostCall(t0, t0.owner)}})
           [] item.kind = "SubMenu" ->
                  Only({
                  IF t1.err THEN t1
                  ELSE [t1 EXCEPT !.current_menu = t1.ret, !.ret = "ShownPopup"]
                  : t1 \in {show_sub_popup(t0, item.sub_menu)}})
           [] item.kind = "MenuDivider" -> [t0 EXCEPT !.ret = "NoExecuted"]
    ELSE [t0 EXCEPT !.ret = "NoExecuted"]

menu_button_up(t0, m, point) ==
    LET ht == find_item_by_coordinates(t0.menus[m], point) IN
    IF /\ ht.ht = "Item"
       /\ t0.menus[m].focused_item_index = Some(ht.index)
       /\ item_at(t0.menus[m], ht.index).kind # "SubMenu"
    THEN Only({
         IF t1.err THEN t1
         ELSE [t1 EXCEPT !.ret = IF t1.ret \in {"NoExecuted", "ShownPopup"}
                                 THEN "NoExecuted"
                                 ELSE t1.ret]
         : t1 \in {execute_focused_item(t0, m)}})
    ELSE [t0 EXCEPT !.ret = "NoExecuted"]

menu_mouse_move(t0, m, point) ==
    LET item_index_option == find_item_by_coordinates(t0.menus[m], point) IN
    IF item_index_option.ht = "Item"
    THEN IF t0.menus[m].focused_item_index # Some(item_index_option.index)
         THEN Only({
              IF t1.err THEN t1 ELSE
              Only({
              IF t2.err THEN t2
              ELSE [t2 EXCEPT !.current_menu = t2.ret, !.ret = TRUE]
              : t2 \in {show_sub_popup(t1, m)}})
              : t1 \in {switch_tracking(t0, m, item_index_option.index)}})
         ELSE [t0 EXCEPT !.ret = TRUE]
    ELSE Only({
         IF t1.err THEN t1
         ELSE [t1 EXCEPT !.menus[m] = select_item(@, None), !.ret = TRUE]
         : t1 \in {hide_sub_popups(t0, m)}})

\* the walk from the top menu down to the current one; get_sub_popup's
\* Option is unwrapped, which panics on None
RECURSIVE menu_key_left_loop(_, _, _)
menu_key_left_loop(t, tmp_menu, prev_menu) ==
    IF tmp_menu # t.current_menu
    THEN IF IsSome(get_sub_popup(t, tmp_menu))
         THEN menu_key_left_loop(t, Unwrap(get_sub_popup(t, tmp_menu)), tmp_menu)
         ELSE [t EXCEPT !.panicked = TRUE]
    ELSE [t EXCEPT !.ret = prev_menu]

menu_key_left(t0) ==
    Only({
    IF t1.panicked THEN t1 ELSE
    Only({
    IF t2.err THEN t2
    ELSE [t2 EXCEPT !.current_menu = t1.ret]
    : t2 \in {hide_sub_popups(t1, t1.ret)}})
    : t1 \in {menu_key_left_loop(t0, t0.top_menu, t0.top_menu)}})

menu_key_right(t0) ==
    Only({
    IF t1.err THEN t1
    ELSE [t1 EXCEPT !.current_menu = t1.ret]
    : t1 \in {show_sub_popup(t0, t0.current_menu)}})

\* the walk of menu_key_escape; its value is prev_menu
RECURSIVE menu_key_escape_loop(_, _, _)
menu_key_escape_loop(t, top, prev_menu) ==
    IF top # t.current_menu
    THEN IF IsSome(get_sub_popup(t, top))
         THEN menu_key_escape_loop(t, Unwrap(get_sub_popup(t, top)), top)
         ELSE top
    ELSE prev_menu

menu_key_escape(t0) ==
    IF t0.current_menu # t0.top_menu
    THEN Only({
         IF t1.err THEN t1
         ELSE [t1 EXCEPT !.current_menu = menu_key_escape_loop(t0, t0.top_menu, t0.top_menu),
                         !.ret = FALSE]
         : t1 \in {hide_sub_popups(t0, menu_key_escape_loop(t0, t0.top_menu, t0.top_menu))}})
    ELSE [t0 EXCEPT !.ret = TRUE]

\* track_menu, a mouse message of the loop; the right button and the double
\* clicks take the branches of the left button
track_menu_mouse(t0, message, point) ==
    LET menu_from_point_result == menu_from_point(t0, t0.top_menu, point) IN
    CASE message = "WM_LBUTTONDOWN" ->
             IF IsSome(menu_from_point_result)
             THEN Only({
                  IF t1.err THEN t1
                  ELSE [t1 EXCEPT !.exit_menu = ~t1.ret]
                  : t1 \in {menu_button_down(t0, Unwrap(menu_from_point_result), point)}})
             ELSE [t0 EXCEPT !.exit_menu = TRUE]
      [] message = "WM_LBUTTONUP" ->
             IF IsSome(menu_from_point_result)
             THEN Only({
                  IF t1.err THEN t1
                  ELSE [t1 EXCEPT !.execution_result = t1.ret,
                                  !.exit_menu = (t1.ret # "NoExecuted")]
                  : t1 \in {menu_button_up(t0, Unwrap(menu_from_point_result), point)}})
             ELSE [t0 EXCEPT !.exit_menu = FALSE]
      [] message = "WM_MOUSEMOVE" ->
             IF IsSome(menu_from_point_result)
             THEN Only({
                  IF t1.err THEN t1
                  ELSE [t1 EXCEPT !.exit_menu = @ \/ ~t1.ret]
                  : t1 \in {menu_mouse_move(t0, Unwrap(menu_from_point_result), point)}})
             ELSE t0

\* the key branches with F10 left to TranslateMessage
track_menu_key_without_f10(t0, vk) ==
    CASE vk = "MENU" -> [t0 EXCEPT !.exit_menu = TRUE]
      [] vk = "HOME" -> [t0 EXCEPT !.menus[t0.current_menu] = select_first(@)]
      [] vk = "END" -> [t0 EXCEPT !.menus[t0.current_menu] = select_last(@)]
      [] vk = "UP" -> [t0 EXCEPT !.menus[t0.current_menu] = select_previous(@)]
      [] vk = "DOWN" -> [t0 EXCEPT !.menus[t0.current_menu] = select_next(@)]
      [] vk = "LEFT" -> menu_key_left(t0)
      [] vk = "RIGHT" -> menu_key_right(t0)
      [] vk = "ESCAPE" ->
             Only({
             IF t1.err THEN t1
             ELSE [t1 EXCEPT !.exit_menu = t1.ret]
             : t1 \in {menu_key_escape(t0)}})
      [] OTHER -> t0

\* track_menu, a WM_KEYDOWN or WM_SYSKEYDOWN of the loop
track_menu_key(t0, vk) ==
    CASE vk \in {"MENU", "F10"} -> [t0 EXCEPT !.exit_menu = TRUE]
      [] vk = "HOME" -> [t0 EXCEPT !.menus[t0.current_menu] = select_first(@)]
      [] vk = "END" -> [t0 EXCEPT !.menus[t0.current_menu] = select_last(@)]
      [] vk = "UP" -> [t0 EXCEPT !.menus[t0.current_menu] = select_previous(@)]
      [] vk = "DOWN" -> [t0 EXCEPT !.menus[t0.current_menu] = select_next(@)]
      [] vk = "LEFT" -> menu_key_left(t0)
      [] vk = "RIGHT" -> menu_key_right(t0)
      [] vk = "ESCAPE" ->
             Only({
             IF t1.err THEN t1
             ELSE [t1 EXCEPT !.exit_menu = t1.ret]
             : t1 \in {menu_key_escape(t0)}})
      [] OTHER -> t0

ReleaseCapture(t0) ==
    Only({
    IF t1.err THEN t1
    ELSE [t1 EXCEPT !.captured = FALSE]
    : t1 \in {MenuHostCall(t0, TRUE)}})

\* track_menu, from the end of the loop to the return
track_menu_return(t0) ==
    Only({
    IF t1.err THEN t1
    ELSE IF ~t1.owner
    THEN [t1 EXCEPT !.result = Some(t0.execution_result # "ShownPopup")]
    ELSE Only({
         IF t2.err THEN t2 ELSE
         Only({
         IF t3.err THEN t3
         ELSE [t3 EXCEPT !.menus[t0.top_menu] =
                             [select_item(@, None) EXCEPT !.window = None],
                         !.windows = @ \ {h \in @ : Some(h) = t0.menus[t0.top_menu].window},
                         !.result = Some(t0.execution_result # "ShownPopup")]
         \* DestroyWindow
         : t3 \in {MenuHostCall(t2, Unwrap(t0.menus[t0.top_menu].window) \in t2.windows)}})
         : t2 \in {hide_sub_popups(t1, t0.top_menu)}})
    \* ReleaseCapture
    : t1 \in {ReleaseCapture(t0)}})

\* open_menu up to the first turn of track_menu's loop
open_menu(windows, menu_list) ==
    Only({
    \* SetCapture
    [t1 EXCEPT !.captured = TRUE, !.calls = 0]
    : t1 \in {init_popup([menus |-> menu_list, current_menu |-> 1, top_menu |-> 1,
                          windows |-> windows, owner |-> TRUE, captured |-> FALSE,
                          posted |-> << >>,
                          execution_result |-> "NoExecuted", result |-> None,
                          exit_menu |-> FALSE, panicked |-> FALSE, ret |-> FALSE,
                          fail |-> 0, calls |-> 0, err |-> FALSE],
                         1)}})

\* no tracking session has run
MenuIdle ==
    [pc |-> "closed", current_menu |-> 0, top_menu |-> 0, windows |-> {},
     owner |-> TRUE, captured |-> FALSE, posted |-> << >>, execution_result |-> "NoExecuted",
     result |-> None]

\* a field as create_input makes it
Created(types, widths, defaults) ==
    \E input_type \in types, client_width \in widths, default_value \in defaults :
        context = Settle(wm_create(input_type, client_width, default_value))

\* no popup has been placed
NoPopup ==
    [x |-> 0, y |-> 0, width |-> 0, height |-> 0, x_anchor |-> 0, y_anchor |-> 0,
     rcWork |-> [left |-> 0, top |-> 0, right |-> 0, bottom |-> 0],
     shown |-> FALSE, window_x |-> 0, window_y |-> 0]

NoMenu ==
    /\ menus = <<>>
    /\ tracker = MenuIdle
    /\ popup = NoPopup

Defaults == {Some(t) : t \in Texts} \cup {None}

\* keyboard, clipboard and programmatic editing of a Text field; every host
\* call succeeds
Init ==
    /\ Created({"Text"}, ClientWidths, Defaults)
    /\ faults = 0
    /\ NoMenu

Next ==
    \/ WM_CHAR
    \/ WM_KEYDOWN
    \/ WM_CLEAR
    \/ WM_COPY
    \/ WM_CUT
    \/ WM_PASTE
    \/ WM_UNDO
    \/ WM_SETTEXT
    \/ WM_PAINT
    \/ WM_IME_COMPOSITION
    \/ WM_DPICHANGED

Spec == Init /\ [][Next]_vars

\* the same field and messages, with up to MaxFaults host calls failing
InitFaults ==
    /\ Created({"Text"}, ClientWidths, Defaults)
    /\ faults = MaxFaults
    /\ NoMenu

SpecFaults == InitFaults /\ [][Next]_vars

\* a field of each input type under the same messages; every host call
\* succeeds
InitTypes ==
    /\ Created(InputTypes, {28}, Defaults)
    /\ faults = 0
    /\ NoMenu

SpecTypes == InitTypes /\ [][Next]_vars

\* Typing, selecting, deleting and undoing one after another in a Text field
\* whose buffers may grow to MaxUndoVec elements; every host call succeeds
FitsUndo(c) ==
    /\ Len(c.buffer) <= Max(MaxUndoVec, Len(context.buffer))
    /\ Len(c.undo_buffer) <= Max(MaxUndoVec, Len(context.undo_buffer))

HandleUndo(result) ==
    \E c \in {result} :
        /\ ~context.aborted
        /\ FitsUndo(c)
        /\ context' = Settle(c)
        /\ UNCHANGED <<faults, menus, tracker, popup>>

UndoChar ==
    \E char \in Printable \cup {BACK} :
        HandleUndo(on_char(context, char, FALSE, None))

UndoKeyDown ==
    \E key \in {"LEFT", "RIGHT", "HOME", "END", "DELETE", "A"}, shift \in BOOLEAN :
        HandleUndo(on_key_down(context, key, shift /\ key # "A", key = "A", FALSE, None))

UndoUndo == HandleUndo(on_undo(context))

InitUndo ==
    /\ Created({"Text"}, {28}, {None, Some(<<65>>)})
    /\ faults = 0
    /\ NoMenu

NextUndo ==
    \/ UndoChar
    \/ UndoKeyDown
    \/ UndoUndo

SpecUndo == InitUndo /\ [][NextUndo]_vars

\* the same field driven by the mouse, the focus and the keyboard
NextPointer ==
    \/ WM_SETFOCUS
    \/ WM_KILLFOCUS
    \/ WM_LBUTTONDOWN
    \/ WM_LBUTTONDBLCLK
    \/ WM_LBUTTONUP
    \/ WM_MOUSEMOVE
    \/ CaptureLost
    \/ WM_CHAR
    \/ WM_KEYDOWN

SpecPointer == Init /\ [][NextPointer]_vars

(***************************************************************************)
(* The tracking session of a popup menu                                    *)
(***************************************************************************)
\* the Tracker, the menus and track_menu's locals at the top of the loop
Tracked ==
    [menus |-> menus, current_menu |-> tracker.current_menu,
     top_menu |-> tracker.top_menu, windows |-> tracker.windows,
     owner |-> tracker.owner,
     captured |-> tracker.captured, posted |-> tracker.posted,
     execution_result |-> tracker.execution_result, result |-> tracker.result,
     exit_menu |-> FALSE, panicked |-> FALSE, ret |-> FALSE,
     fail |-> 0, calls |-> 0, err |-> FALSE]

\* the points of the screen that tell popups and items apart
Points ==
    {[window |-> 0, item |-> None]}
    \cup {[window |-> h, item |-> None] : h \in tracker.windows}
    \cup UNION {{[window |-> Unwrap(menus[m].window), item |-> Some(i)]
                 : i \in 0..(Len(menus[m].items) - 1)}
                : m \in {n \in DOMAIN menus : IsSome(menus[n].window)}}

Shown(pc, t) ==
    /\ menus' = t.menus
    /\ tracker' = [pc |-> pc, current_menu |-> t.current_menu,
                   top_menu |-> t.top_menu, windows |-> t.windows,
                   owner |-> t.owner, captured |-> t.captured, posted |-> t.posted,
                   execution_result |-> t.execution_result, result |-> t.result]
    /\ UNCHANGED <<context, faults, popup>>

\* one turn of track_menu's loop and, when it was the last, the return; an
\* Err leaves track_menu at once
Track(t) ==
    /\ tracker.pc = "tracking"
    /\ IF t.panicked THEN Shown("panicked", t)
       ELSE IF t.err THEN Shown("failed", t)
       ELSE IF t.exit_menu
       THEN IF track_menu_return(t).err
            THEN Shown("failed", track_menu_return(t))
            ELSE Shown("closed", track_menu_return(t))
       ELSE Shown("tracking", t)

OpenMenu ==
    /\ tracker.pc = "closed"
    \* IsWindow(parent_window)
    /\ tracker.owner
    /\ \E menu_list \in MenuLists :
           Shown("tracking", open_menu(tracker.windows, menu_list))

TrackKeyDown == \E vk \in MenuKeys : Track(track_menu_key(Tracked, vk))

TrackButtonDown ==
    \E point \in Points : Track(track_menu_mouse(Tracked, "WM_LBUTTONDOWN", point))

TrackButtonUp ==
    \E point \in Points : Track(track_menu_mouse(Tracked, "WM_LBUTTONUP", point))

TrackMouseMove ==
    \E point \in Points : Track(track_menu_mouse(Tracked, "WM_MOUSEMOVE", point))

\* WM_CANCELMODE breaks the loop
TrackCancelMode == Track([Tracked EXCEPT !.exit_menu = TRUE])

\* a field that is not touched, and a menu opened over its window
InitMenu ==
    /\ Created({"Text"}, {28}, {None})
    /\ faults = 0
    /\ NoMenu

NextMenu ==
    \/ OpenMenu
    \/ TrackKeyDown
    \/ TrackButtonDown
    \/ TrackButtonUp
    \/ TrackMouseMove
    \/ TrackCancelMode

SpecMenu == InitMenu /\ [][NextMenu]_vars

(***************************************************************************)
(* The tracking session when the host refuses a call or the owning window  *)
(* is destroyed                                                            *)
(***************************************************************************)
\* the top of the loop of a turn in which the host refuses call number fail
TrackedFailing(fail) == [Tracked EXCEPT !.fail = fail]

\* a turn of the loop, on a key, a mouse message or WM_CANCELMODE, during
\* which one host call fails
TrackHostFailure ==
    /\ tracker.pc = "tracking"
    /\ \E fail \in 1..MaxCalls :
           \/ \E vk \in MenuKeys : Track(track_menu_key(TrackedFailing(fail), vk))
           \/ \E message \in {"WM_LBUTTONDOWN", "WM_LBUTTONUP", "WM_MOUSEMOVE"} :
                  \E point \in Points :
                      Track(track_menu_mouse(TrackedFailing(fail), message, point))
           \/ Track([TrackedFailing(fail) EXCEPT !.exit_menu = TRUE])

\* the owning window is destroyed while the loop waits or dispatches a
\* message; the host destroys the popups it owns with it, which ends their
\* capture, and the Menu nodes keep the handles
OwnerDestroyed ==
    /\ tracker.pc = "tracking"
    /\ tracker.owner
    /\ tracker' = [tracker EXCEPT !.owner = FALSE, !.windows = {},
                                  !.captured = FALSE]
    /\ UNCHANGED <<context, faults, menus, popup>>

NextMenuHost ==
    \/ NextMenu
    \/ TrackHostFailure
    \/ OwnerDestroyed

SpecMenuHost == InitMenu /\ [][NextMenuHost]_vars

(***************************************************************************)
(* The placement of one popup                                              *)
(***************************************************************************)
\* the work areas of the monitors
WorkAreas ==
    {[left |-> l, top |-> t, right |-> MaxCoord - 1, bottom |-> MaxCoord - 1]
     : l \in 0..1, t \in 0..1}

\* the offsets show_sub_popup passes are negative, those of open_menu are 0
Anchors == {-2, 0, 2}

\* a popup about to be shown
InitPlacement ==
    /\ Created({"Text"}, {28}, {None})
    /\ faults = 0
    /\ menus = <<>>
    /\ tracker = MenuIdle
    /\ popup \in [x : (-1)..MaxCoord, y : (-1)..MaxCoord,
                   width : 0..MaxExtent, height : 0..MaxExtent,
                   x_anchor : Anchors, y_anchor : Anchors,
                   rcWork : WorkAreas, shown : {FALSE},
                   window_x : {0}, window_y : {0}]

\* show_popup up to SetWindowPos, which moves the window
ShowPopup ==
    /\ ~popup.shown
    /\ \E at \in {show_popup_place(popup.x, popup.y, popup.width, popup.height,
                                   popup.x_anchor, popup.y_anchor, popup.rcWork)} :
           popup' = [popup EXCEPT !.window_x = at.x, !.window_y = at.y,
                                  !.shown = TRUE]
    /\ UNCHANGED <<context, faults, menus, tracker>>

SpecPlacement == InitPlacement /\ [][ShowPopup]_vars

(***************************************************************************)
(* The claims                                                              *)
(***************************************************************************)
\* the text of the field: the code units before the terminator
Text(c) == SubSeq(c.buffer, 1, lstrlenW(c.buffer))

\* C1: in every reachable state, shaping or measurement calls failing or
\* not, selection_start and selection_end are at most the length of the text
C1_SelectionInRange ==
    ~context.aborted =>
        /\ context.selection_start \in 0..lstrlenW(context.buffer)
        /\ context.selection_end \in 0..lstrlenW(context.buffer)
\* replacement strings of the claims about replace_selection
Replacements == {<<>>, <<49>>, <<65, 49>>}

\* the undo record holds nothing an edit could be merged with
NoUndoRecord(c) == c.undo_insert_count = 0 /\ is_empty(c.undo_buffer)

\* C2: one edit replace_selection(true, X, true) that is not merged into an
\* earlier undo record, followed at once by on_undo, gives back the text and
\* the selection of before the edit
C2_UndoRoundTrip ==
    \A X \in Replacements :
        LET edited == replace_selection(context, TRUE, X, TRUE)
            undone == on_undo(edited)
        IN  (/\ ~context.aborted
             /\ NoUndoRecord(context)
             /\ X # <<>> \/ context.selection_start # context.selection_end
             /\ Ok(edited) /\ Ok(undone))
            => /\ Text(undone) = Text(context)
               /\ undone.selection_start = context.selection_start
               /\ undone.selection_end = context.selection_end

\* C2 without the selection: the text alone is restored
C2_UndoRestoresText ==
    \A X \in Replacements :
        LET edited == replace_selection(context, TRUE, X, TRUE)
            undone == on_undo(edited)
        IN  (/\ ~context.aborted
             /\ NoUndoRecord(context)
             /\ X # <<>> \/ context.selection_start # context.selection_end
             /\ Ok(edited) /\ Ok(undone))
            => Text(undone) = Text(context)

\* the text replace_selection is to leave: old[0..s) ++ X ++ old[e..len)
Spliced(c, X) ==
    LET s == Min(c.selection_start, c.selection_end)
        e == Max(c.selection_start, c.selection_end)
        old == Text(c)
    IN  SubSeq(old, 1, s) \o X \o SubSeq(old, e + 1, Len(old))

\* the shaped width of a text of n code units
MeasuredWidth(n) == GlyphAdvance * n

\* C3: replace_selection on (a, b) with a replacement X that needs no width
\* trimming leaves old[0..s) ++ X ++ old[e..len) and the selection collapsed
\* at s + |X|; it changes the text or the selection unless a = b and X is empty
C3_Splice ==
    \A X \in Replacements, can_undo \in BOOLEAN, honor_limit \in BOOLEAN :
        LET c == replace_selection(context, can_undo, X, honor_limit)
            s == Min(context.selection_start, context.selection_end)
            fw == context.format_right - context.format_left
        IN  (/\ ~context.aborted
             /\ honor_limit => MeasuredWidth(Len(Spliced(context, X))) <= fw)
            => /\ Ok(c)
               /\ Text(c) = Spliced(context, X)
               /\ c.selection_start = s + Len(X)
               /\ c.selection_end = s + Len(X)
               /\ (context.selection_start # context.selection_end \/ X # <<>>)
                  => \/ Text(c) # Text(context)
                     \/ c.selection_start # context.selection_start
                     \/ c.selection_end # context.selection_end
\* optional offsets a caller may pass to set_selection
OptOffsets(c) == {None} \cup {Some(i) : i \in 0..Len(c.buffer)}

\* a selected span is replaced by two code units that fit
C3_Witness ==
    LET c == replace_selection(context, TRUE, <<65, 49>>, TRUE)
        fw == context.format_right - context.format_left
    IN  /\ ~context.aborted
        /\ context.selection_start # context.selection_end
        /\ MeasuredWidth(Len(Spliced(context, <<65, 49>>))) <= fw
        /\ Ok(c)
        /\ Text(c) = Spliced(context, <<65, 49>>)
        /\ Text(c) # Text(context)

\* the pair the arguments of set_selection stand for, after clamping
Resolved(c, start, end) ==
    LET length == lstrlenW(c.buffer)
        Clamp(o) == IF Unwrap(o) > length THEN length ELSE Unwrap(o)
    IN  IF IsSome(start)
        THEN <<Clamp(start), IF IsSome(end) THEN Clamp(end) ELSE length>>
        ELSE <<c.selection_end, c.selection_end>>

\* C4: set_selection with arguments that resolve, after clamping, to the
\* current (start, end) returns changed = false, leaves the selection as it
\* was and asks for no invalidation
C4_SetSelectionNoOp ==
    \A start \in OptOffsets(context), end \in OptOffsets(context) :
        LET c == set_selection(context, start, end)
        IN  (/\ ~context.aborted
             /\ IsSome(start) \/ ~IsSome(end)
             /\ Resolved(context, start, end)
                    = <<context.selection_start, context.selection_end>>)
            => /\ Ok(c)
               /\ c.ret = FALSE
               /\ c.selection_start = context.selection_start
               /\ c.selection_end = context.selection_end
               /\ c.fx_inval = <<>>
               /\ c.fx_inval_rect = 0

\* a selection that is not collapsed is set again, its start given as an
\* offset behind the text
C4_Witness ==
    LET c == set_selection(context, Some(Len(context.buffer)), Some(context.selection_end))
    IN  /\ ~context.aborted
        /\ context.selection_start # context.selection_end
        /\ context.selection_start = lstrlenW(context.buffer)
        /\ Ok(c) /\ c.ret = FALSE /\ c.fx_inval = <<>>

\* C5: replace_selection with an empty replacement on an empty selection
\* leaves the buffer, the selection, the scroll offset and the undo record
\* as they were, whatever can_undo and honor_limit are
C5_EmptyReplaceNoOp ==
    \A can_undo \in BOOLEAN, honor_limit \in BOOLEAN, fuel \in 0..MaxFuel :
        LET c == replace_selection(Armed(fuel), can_undo, <<>>, honor_limit)
        IN  (~context.aborted /\ context.selection_start = context.selection_end)
            => /\ ~c.aborted
               /\ c.buffer = context.buffer
               /\ c.selection_start = context.selection_start
               /\ c.selection_end = context.selection_end
               /\ c.x_offset = context.x_offset
               /\ c.undo_position = context.undo_position
               /\ c.undo_insert_count = context.undo_insert_count
               /\ c.undo_buffer = context.undo_buffer

\* nothing is replaced in a scrolled field that has an undo record
C5_Witness ==
    LET c == replace_selection(context, FALSE, <<>>, TRUE)
    IN  /\ ~context.aborted
        /\ context.selection_start = context.selection_end
        /\ context.undo_insert_count > 0
        /\ context.x_offset > 0
        /\ Ok(c)
        /\ c.buffer = context.buffer
        /\ c.undo_insert_count = context.undo_insert_count

\* C6: after replace_selection with honor_limit = true has returned, the
\* text is no wider than the format rectangle, and the text before and
\* behind the replaced range is all still there
C6_WidthLimit ==
    \A X \in Replacements, can_undo \in BOOLEAN :
        LET c == replace_selection(context, can_undo, X, TRUE)
            s == Min(context.selection_start, context.selection_end)
            e == Max(context.selection_start, context.selection_end)
            old == Text(context)
            new == Text(c)
            fw == context.format_right - context.format_left
            kept == Len(old) - e
        IN  (/\ ~context.aborted
             /\ MeasuredWidth(Len(old)) <= fw
             /\ Ok(c))
            => /\ MeasuredWidth(Len(new)) <= fw
               /\ Len(new) >= s + kept
               /\ SubSeq(new, 1, s) = SubSeq(old, 1, s)
               /\ SubSeq(new, Len(new) - kept + 1, Len(new)) = SubSeq(old, e + 1, Len(old))

Without(text, s, e) == SubSeq(text, 1, s) \o SubSeq(text, e + 1, Len(text))

\* C8: Backspace without Ctrl deletes a non-empty selection and leaves the
\* caret at its lower end; on an empty selection at c > 0 it deletes the code
\* unit at c - 1 and leaves the caret at c - 1; at c = 0 it changes nothing
C8_Backspace ==
    LET c == on_char(context, BACK, FALSE, None)
        a == context.selection_start
        b == context.selection_end
        s == Min(a, b)
        e == Max(a, b)
    IN  ~context.aborted =>
            /\ Ok(c)
            /\ a # b =>
                   /\ Text(c) = Without(Text(context), s, e)
                   /\ c.selection_start = s /\ c.selection_end = s
            /\ (a = b /\ b > 0) =>
                   /\ Text(c) = Without(Text(context), b - 1, b)
                   /\ c.selection_start = b - 1 /\ c.selection_end = b - 1
            /\ (a = b /\ b = 0) =>
                   /\ c.buffer = context.buffer
                   /\ c.selection_start = 0 /\ c.selection_end = 0

\* Backspace with the caret inside the text
C8_Witness ==
    LET c == on_char(context, BACK, FALSE, None)
        b == context.selection_end
    IN  /\ ~context.aborted
        /\ context.selection_start = b
        /\ 0 < b /\ b < lstrlenW(context.buffer)
        /\ Ok(c)
        /\ Text(c) = Without(Text(context), b - 1, b)
        /\ c.selection_end = b - 1

\* the indices of the menu's items that are not dividers
NonDividers(menu) ==
    {j \in 0..(Len(menu.items) - 1) : item_at(menu, j).kind # "MenuDivider"}

\* the least and the greatest member of a non-empty set of indices
Least(S) == CHOOSE j \in S : \A k \in S : j <= k
Greatest(S) == CHOOSE j \in S : \A k \in S : k <= j

\* the focus of the current menu after the key-down
FocusAfter(vk) ==
    track_menu_key(Tracked, vk).menus[tracker.current_menu].focused_item_index

\* C9: in the tracker's current menu, Down (Up) moves the focus from index i
\* to the nearest index above (below) i whose item is not a divider, disabled
\* leaves included, and leaves it at i when there is none; Home (End) moves
\* it to the first (last) item that is not a divider; with no focus, Up and
\* Down leave the menu without focus
C9_KeyboardFocus ==
    tracker.pc = "tracking" =>
        LET menu == menus[tracker.current_menu]
            focus == menu.focused_item_index
            above == {j \in NonDividers(menu) : j > Unwrap(focus)}
            below == {j \in NonDividers(menu) : j < Unwrap(focus)}
        IN  /\ focus = None => FocusAfter("DOWN") = None /\ FocusAfter("UP") = None
            /\ IsSome(focus) =>
                   /\ FocusAfter("DOWN") =
                          IF above = {} THEN focus ELSE Some(Least(above))
                   /\ FocusAfter("UP") =
                          IF below = {} THEN focus ELSE Some(Greatest(below))
            /\ NonDividers(menu) # {} =>
                   /\ FocusAfter("HOME") = Some(Least(NonDividers(menu)))
                   /\ FocusAfter("END") = Some(Greatest(NonDividers(menu)))

\* the focus is on a disabled leaf, where Down from the item before it
\* leads, and Down from there skips a divider
C9_Witness ==
    /\ tracker.pc = "tracking"
    /\ LET menu == menus[tracker.current_menu]
           focus == menu.focused_item_index
       IN  /\ focus = Some(1)
           /\ item_at(menu, 1).kind = "MenuItem" /\ item_at(menu, 1).disabled
           /\ select_next(select_item(menu, Some(0))) = menu
           /\ item_at(menu, 2).kind = "MenuDivider"
           /\ FocusAfter("DOWN") = Some(3)
           /\ FocusAfter("UP") = Some(0)

\* C10: Right key-down with the current menu's focus on a SubMenu item
\* creates the submenu's popup window, makes the submenu the current menu and
\* leaves it without focus; with the focus on a leaf or a divider, or with no
\* focus, Right changes neither the current menu nor any window
C10_RightKey ==
    tracker.pc = "tracking" =>
        LET menu == menus[tracker.current_menu]
            sub_menu == FocusedSubMenu(menu)
            after == track_menu_key(Tracked, "RIGHT")
        IN  IF IsSome(sub_menu)
            THEN /\ after.current_menu = Unwrap(sub_menu)
                 /\ IsSome(after.menus[Unwrap(sub_menu)].window)
                 /\ Unwrap(after.menus[Unwrap(sub_menu)].window) \in after.windows
                 /\ after.menus[Unwrap(sub_menu)].focused_item_index = None
            ELSE /\ after.current_menu = tracker.current_menu
                 /\ after.windows = tracker.windows
                 /\ \A m \in DOMAIN menus : after.menus[m].window = menus[m].window

\* the menu that holds the SubMenu item of menu m
ParentMenu(m) ==
    CHOOSE p \in DOMAIN menus :
        \E i \in 1..Len(menus[p].items) :
            menus[p].items[i].kind = "SubMenu" /\ menus[p].items[i].sub_menu = m

\* menu m and the menus below it
RECURSIVE SubTree(_)
SubTree(m) ==
    {m} \cup UNION {SubTree(menus[m].items[i].sub_menu)
                    : i \in {k \in 1..Len(menus[m].items)
                                : menus[m].items[k].kind = "SubMenu"}}

\* C11: Escape key-down with a submenu as the current menu destroys only that
\* submenu's popup and those below it, makes its parent the current menu with
\* the parent's focus still on the SubMenu item, and the session continues;
\* with the root as the current menu the session ends and no command is posted
C11_EscapeOneLevel ==
    tracker.pc = "tracking" =>
        LET current == tracker.current_menu
            after == track_menu_key(Tracked, "ESCAPE")
        IN  IF current # tracker.top_menu
            THEN /\ ~after.exit_menu
                 /\ after.current_menu = ParentMenu(current)
                 /\ FocusedSubMenu(after.menus[ParentMenu(current)]) = Some(current)
                 /\ \A m \in SubTree(current) : after.menus[m].window = None
                 /\ \A m \in DOMAIN menus \ SubTree(current) :
                        after.menus[m].window = menus[m].window
            ELSE /\ after.exit_menu
                 /\ after.posted = tracker.posted
                 /\ track_menu_return(after).posted = tracker.posted

\* C12: Left key-down is handled without failing in every tracking state: with
\* a submenu as the current menu its popup is closed and its parent becomes
\* the current menu, focused on the SubMenu item that owns it; with the root
\* as the current menu no popup is closed and the session continues
C12_LeftKey ==
    tracker.pc = "tracking" =>
        LET current == tracker.current_menu
            after == track_menu_key(Tracked, "LEFT")
        IN  /\ ~after.panicked
            /\ ~after.exit_menu
            /\ IF current # tracker.top_menu
               THEN /\ after.menus[current].window = None
                    /\ after.current_menu = ParentMenu(current)
                    /\ FocusedSubMenu(after.menus[ParentMenu(current)]) = Some(current)
               ELSE /\ after.current_menu = current
                    /\ after.windows = tracker.windows

\* what the claim says of one axis: the coordinate r asked for at p, for the
\* extent w and the anchor offset a, lies in the work-area interval [lo, hi]
\* when that is wide enough, and is hi - w raised to lo when no anchor is given
\* and p + w > hi
PlacedOnAxis(r, p, w, a, lo, hi) ==
    /\ r >= lo
    /\ w <= hi - lo => r + w <= hi
    /\ (a = 0 /\ p + w > hi) => r = Max(hi - w, lo)

\* C13: each axis of the position show_popup gives the window satisfies
\* r >= lo, r + w <= hi when w <= hi - lo, and r = max(hi - w, lo) when a = 0
\* and p + w > hi; the x result does not depend on y, height or y_anchor, nor
\* the y result on x, width or x_anchor
C13_Placement ==
    popup.shown =>
        /\ PlacedOnAxis(popup.window_x, popup.x, popup.width, popup.x_anchor,
                        popup.rcWork.left, popup.rcWork.right)
        /\ PlacedOnAxis(popup.window_y, popup.y, popup.height, popup.y_anchor,
                        popup.rcWork.top, popup.rcWork.bottom)
        /\ \A p \in (-1)..MaxCoord, w \in 0..MaxExtent, a \in Anchors, lo \in 0..1 :
               /\ show_popup_place(popup.x, p, popup.width, w, popup.x_anchor, a,
                                   [popup.rcWork EXCEPT !.top = lo]).x
                      = popup.window_x
               /\ show_popup_place(p, popup.y, w, popup.height, a, popup.y_anchor,
                                   [popup.rcWork EXCEPT !.left = lo]).y
                      = popup.window_y

\* a popup that overflows the right edge without an anchor and is pulled back
\* to the left edge, and that was flipped above its anchor
C13_Witness ==
    /\ popup.shown
    /\ popup.x_anchor = 0
    /\ popup.x + popup.width > popup.rcWork.right
    /\ popup.rcWork.right - popup.width < popup.rcWork.left
    /\ popup.window_x = popup.rcWork.left
    /\ popup.y_anchor # 0
    /\ popup.y + popup.height > popup.rcWork.bottom
    /\ popup.window_y = popup.y - (popup.height + popup.y_anchor)

\* the menus whose popup window lies under a point
MenuUnder(point) == {m \in DOMAIN menus : menus[m].window = Some(point.window)}

\* the points over the items of menu m
Over(m) == {point \in Points : m \in MenuUnder(point) /\ IsSome(point.item)}

\* the turn of the loop that a button release at a point makes
ButtonUp(point) == track_menu_mouse(Tracked, "WM_LBUTTONUP", point)

\* C14: a mouse-up over the focused item of the menu under the pointer, when
\* the item is an enabled leaf, posts its id once and ends the session; no
\* session posts more than one command
C14_MouseUpExecutes ==
    /\ Len(tracker.posted) <= 1
    /\ tracker.pc = "tracking" =>
           /\ tracker.posted = << >>
           /\ \A m \in DOMAIN menus : \A point \in Over(m) :
                  (/\ menus[m].focused_item_index = point.item
                   /\ item_at(menus[m], Unwrap(point.item)).kind = "MenuItem"
                   /\ ~item_at(menus[m], Unwrap(point.item)).disabled)
                  => /\ ButtonUp(point).posted
                          = <<item_at(menus[m], Unwrap(point.item)).id>>
                     /\ ButtonUp(point).exit_menu
                     /\ ~ButtonUp(point).panicked

\* a session that a mouse-up over an enabled leaf of a submenu has ended
C14_Witness ==
    /\ tracker.pc = "closed"
    /\ Len(tracker.posted) = 1
    /\ tracker.result = Some(TRUE)
    /\ tracker.execution_result = "Executed"
    /\ \E m \in DOMAIN menus : \E i \in 0..(Len(menus[m].items) - 1) :
           /\ m # tracker.top_menu
           /\ item_at(menus[m], i).kind = "MenuItem"
           /\ item_at(menus[m], i).id = tracker.posted[1]

\* the ids of the enabled leaves of the tree
EnabledIds ==
    UNION {{item_at(menus[m], i).id :
               i \in {j \in 0..(Len(menus[m].items) - 1) :
                         /\ item_at(menus[m], j).kind = "MenuItem"
                         /\ ~item_at(menus[m], j).disabled}}
           : m \in DOMAIN menus}

\* C15: only enabled leaves post: every posted id is an enabled leaf's, a
\* mouse-up over a disabled leaf, a Divider or a SubMenu item posts nothing
\* and does not end the session, and no key posts
C15_OnlyEnabledLeavesPost ==
    /\ \A k \in DOMAIN tracker.posted : tracker.posted[k] \in EnabledIds
    /\ tracker.pc = "tracking" =>
           /\ \A m \in DOMAIN menus : \A point \in Over(m) :
                  (\/ item_at(menus[m], Unwrap(point.item)).kind # "MenuItem"
                   \/ item_at(menus[m], Unwrap(point.item)).disabled)
                  => /\ ButtonUp(point).posted = tracker.posted
                     /\ ~ButtonUp(point).exit_menu
                     /\ ~ButtonUp(point).panicked
           /\ \A vk \in MenuKeys :
                  track_menu_key(Tracked, vk).posted = tracker.posted

\* a disabled leaf is focused and can be released on, in a menu that also
\* shows a Divider and a SubMenu item
C15_Witness ==
    /\ tracker.pc = "tracking"
    /\ \E m \in DOMAIN menus : \E point \in Over(m) :
           /\ menus[m].focused_item_index = point.item
           /\ item_at(menus[m], Unwrap(point.item)).kind = "MenuItem"
           /\ item_at(menus[m], Unwrap(point.item)).disabled
           /\ ButtonUp(point).posted = << >>
           /\ ~ButtonUp(point).exit_menu
           /\ \E other \in Over(m) :
                  /\ item_at(menus[m], Unwrap(other.item)).kind = "SubMenu"
                  /\ ~ButtonUp(other).exit_menu
           /\ \E other \in Over(m) :
                  /\ item_at(menus[m], Unwrap(other.item)).kind = "MenuDivider"
                  /\ ~ButtonUp(other).exit_menu

\* the points that lie over no displayed menu window
Outside == {point \in Points : MenuUnder(point) = {}}

\* the session has ended from the turn t of the loop: the loop is left, the
\* capture is released and track_menu has its result
Ended(t) ==
    /\ t.exit_menu
    /\ ~t.panicked
    /\ IsSome(track_menu_return(t).result)
    /\ ~track_menu_return(t).captured

\* C16: a mouse-down outside every displayed menu window, and an Alt or F10
\* key-down, each end the session, and neither posts a command
C16_Dismissal ==
    tracker.pc = "tracking" =>
        /\ \A point \in Outside :
               /\ Ended(track_menu_mouse(Tracked, "WM_LBUTTONDOWN", point))
               /\ track_menu_return(track_menu_mouse(Tracked, "WM_LBUTTONDOWN",
                                                     point)).posted = << >>
        /\ \A vk \in {"MENU", "F10"} :
               /\ Ended(track_menu_key(Tracked, vk))
               /\ track_menu_return(track_menu_key(Tracked, vk)).posted = << >>

\* two nested submenus are displayed, with an enabled leaf focused, when the
\* button goes down outside them or F10 is pressed
C16_Witness ==
    /\ tracker.pc = "tracking"
    /\ Cardinality(tracker.windows) = 3
    /\ \E m \in DOMAIN menus :
           /\ IsSome(menus[m].window)
           /\ IsSome(menus[m].focused_item_index)
           /\ item_at(menus[m], Unwrap(menus[m].focused_item_index)).kind = "MenuItem"
    /\ \E point \in Outside :
           track_menu_return(track_menu_mouse(Tracked, "WM_LBUTTONDOWN",
                                              point)).windows = {}
    /\ track_menu_return(track_menu_key(Tracked, "F10")).windows = {}

\* the turn of the loop that a mouse move to a point makes
MouseMove(point) == track_menu_mouse(Tracked, "WM_MOUSEMOVE", point)

\* the menus that the SubMenu items of menu m lead to, other than through item i
OtherSubMenus(m, i) ==
    UNION {SubTree(item_at(menus[m], j).sub_menu) :
              j \in {k \in 0..(Len(menus[m].items) - 1) :
                        k # i /\ item_at(menus[m], k).kind = "SubMenu"}}

\* C17: a mouse-move onto an item that is not the focused item of the menu
\* under the pointer closes the submenu that menu had open, focuses the new
\* item and, when it is a SubMenu, creates its popup window and makes that
\* submenu the current menu
C17_Hover ==
    tracker.pc = "tracking" =>
        \A m \in DOMAIN menus : \A point \in Over(m) :
            menus[m].focused_item_index # point.item =>
                /\ ~MouseMove(point).panicked
                /\ ~MouseMove(point).exit_menu
                /\ MouseMove(point).menus[m].focused_item_index = point.item
                /\ \A n \in OtherSubMenus(m, Unwrap(point.item)) :
                       MouseMove(point).menus[n].window = None
                /\ item_at(menus[m], Unwrap(point.item)).kind = "SubMenu" =>
                       LET sub == item_at(menus[m], Unwrap(point.item)).sub_menu IN
                       /\ IsSome(MouseMove(point).menus[sub].window)
                       /\ Unwrap(MouseMove(point).menus[sub].window)
                              \in MouseMove(point).windows
                       /\ MouseMove(point).current_menu = sub

\* a menu shows an open submenu and the pointer moves onto another of its
\* SubMenu items
C17_Witness ==
    /\ tracker.pc = "tracking"
    /\ \E m \in DOMAIN menus : \E point \in Over(m) :
           /\ menus[m].focused_item_index # point.item
           /\ IsSome(get_sub_popup(Tracked, m))
           /\ item_at(menus[m], Unwrap(point.item)).kind = "SubMenu"
           /\ MouseMove(point).menus[Unwrap(get_sub_popup(Tracked, m))].window = None
           /\ MouseMove(point).current_menu
                  = item_at(menus[m], Unwrap(point.item)).sub_menu

\* C18: a mouse-down on a SubMenu item whose popup is not displayed focuses
\* the item and displays the submenu, which then has a popup window
C18_MouseDownOpens ==
    tracker.pc = "tracking" =>
        \A m \in DOMAIN menus : \A point \in Over(m) :
            (/\ item_at(menus[m], Unwrap(point.item)).kind = "SubMenu"
             /\ menus[item_at(menus[m], Unwrap(point.item)).sub_menu].window = None)
            => LET t == track_menu_mouse(Tracked, "WM_LBUTTONDOWN", point) IN
               /\ t.menus[m].focused_item_index = point.item
               /\ IsSome(t.menus[item_at(menus[m], Unwrap(point.item)).sub_menu].window)

\* the turn t of the loop has ended the session in order
EndsSession(t) == ~t.panicked /\ ~t.err /\ t.exit_menu

\* C19: once the owning window is invalid, the next turn of the tracking loop
\* ends the session, whatever its message, and no popup window is left when
\* track_menu has returned
C19_OwnerInvalid ==
    ~tracker.owner =>
        /\ tracker.pc = "tracking" =>
               /\ \A vk \in MenuKeys : EndsSession(track_menu_key(Tracked, vk))
               /\ \A point \in Points :
                      /\ EndsSession(track_menu_mouse(Tracked, "WM_LBUTTONUP", point))
                      /\ EndsSession(track_menu_mouse(Tracked, "WM_MOUSEMOVE", point))
        /\ tracker.pc \in {"closed", "failed"} => tracker.windows = {}

\* C20: when track_menu has returned and the owning window is valid, the
\* capture is released and no Menu node has a window, whether the loop was
\* left in order or by a handler's error
C20_ReturnCleansUp ==
    (tracker.pc \in {"closed", "failed"} /\ tracker.owner) =>
        /\ ~tracker.captured
        /\ tracker.windows = {}
        /\ \A m \in DOMAIN menus : menus[m].window = None

\* C21: the result of a finished session tells whether a command was
\* executed: it is true exactly when a leaf's command was posted
C21_ResultReportsExecution ==
    (tracker.pc = "closed" /\ IsSome(tracker.result)) =>
        (Unwrap(tracker.result) <=> tracker.posted # << >>)

\* C22: after set_text has returned, whatever the state before and the new
\* text, the undo record is empty (inserted count 0, no deleted text), and an
\* undo issued at once leaves the buffer as set_text left it
C22_SetTextClearsUndo ==
    \A text \in Texts :
        LET set == set_text(context, text)
            undone == on_undo(set)
        IN  (~context.aborted /\ Ok(set)) =>
                /\ NoUndoRecord(set)
                /\ Ok(undone) => Text(undone) = Text(set)

\* C23: an undo that restores an edit leaves the undo record empty, and a
\* second undo issued at once changes neither the buffer nor the selection
C23_UndoConsumesRecord ==
    LET once == on_undo(context)
        twice == on_undo(once)
    IN  (/\ ~context.aborted
         /\ ~NoUndoRecord(context)
         /\ Ok(once) /\ Ok(twice))
        => /\ NoUndoRecord(once)
           /\ twice.buffer = once.buffer
           /\ twice.selection_start = once.selection_start
           /\ twice.selection_end = once.selection_end

\* C24: k = 1 or 2 printable characters typed one after another at an empty
\* selection at offset s, all of them inserted, leave an undo record with
\* position s and inserted count k, and one undo gives back the text of
\* before the first of them
C24_Coalescing ==
    \A ch1 \in Printable, ch2 \in Printable :
        LET s == context.selection_end
            typed1 == on_char(context, ch1, FALSE, None)
            typed2 == on_char(typed1, ch2, FALSE, None)
            undone1 == on_undo(typed1)
            undone2 == on_undo(typed2)
        IN  (/\ ~context.aborted
             /\ context.selection_start = context.selection_end
             /\ Ok(typed1)
             /\ Text(typed1) = Spliced(context, <<ch1>>))
            => /\ typed1.undo_position = s
               /\ typed1.undo_insert_count = 1
               /\ Ok(undone1) => Text(undone1) = Text(context)
               /\ (Ok(typed2) /\ Text(typed2) = Spliced(context, <<ch1, ch2>>))
                  => /\ typed2.undo_position = s
                     /\ typed2.undo_insert_count = 2
                     /\ Ok(undone2) => Text(undone2) = Text(context)

\* control characters that on_char has no branch for
OtherControls == {1, 9, 13, 27, DEL}

\* the digits among the printable code units
Digits == {49}

\* C25: a typed printable character replaces the selection, in a Number
\* field when it is a digit; a non-digit typed into a Number field leaves
\* buffer and selection as they were; the other control characters never
\* modify the buffer
C25_TypedCharacter ==
    ~context.aborted =>
        /\ \A ch \in Printable :
               LET c == on_char(context, ch, FALSE, None)
                   s == Min(context.selection_start, context.selection_end)
                   fw == context.format_right - context.format_left
               IN  IF context.input_type = "Number" /\ ch \notin Digits
                   THEN /\ c.buffer = context.buffer
                        /\ c.selection_start = context.selection_start
                        /\ c.selection_end = context.selection_end
                   ELSE MeasuredWidth(Len(Spliced(context, <<ch>>))) <= fw
                        => /\ Ok(c)
                           /\ Text(c) = Spliced(context, <<ch>>)
                           /\ c.selection_start = s + 1
                           /\ c.selection_end = s + 1
        /\ \A ch \in OtherControls, control \in BOOLEAN :
               on_char(context, ch, control, None).buffer = context.buffer

\* C26: in a Password field neither ^C or ^X as a character nor any key-down,
\* Ctrl+Insert and Shift+Delete included, puts text on the clipboard, and
\* ^X and Shift+Delete do not cut
C26_PasswordNoCopyCut ==
    (~context.aborted /\ context.input_type = "Password") =>
        /\ \A ch \in {CTRL_C, CTRL_X} :
               /\ on_char(context, ch, FALSE, None).fx_copied = None
               /\ on_char(context, ch, FALSE, None).buffer = context.buffer
        /\ \A key \in Keys, shift \in BOOLEAN, control \in BOOLEAN :
               on_key_down(context, key, shift, control, FALSE,
                           Some(<<49>>)).fx_copied = None

\* clipboard texts with and without line breaks
PastedTexts ==
    ClipTexts \cup {<<LF>>, <<CR, LF, 65>>, <<65, CR>>, <<65, LF, 49, LF>>, <<CR, 49, LF>>}

\* the part of a text that precedes its first line break
RECURSIVE BeforeLineBreak(_)
BeforeLineBreak(text) ==
    IF text = <<>> THEN <<>>
    ELSE IF Head(text) = LF THEN <<>>
    ELSE IF Head(text) = CR /\ Len(text) > 1 /\ text[2] = LF THEN <<>>
    ELSE <<Head(text)>> \o BeforeLineBreak(Tail(text))

\* C27: a paste leaves what replace_selection(true, P, true) leaves, P being
\* the clipboard text before its first line break, or all of it when it has
\* none; the paste brings no line feed into the field
C27_Paste ==
    \A clip \in PastedTexts :
        LET pasted == on_paste(context, Some(clip))
            replaced == replace_selection(context, TRUE, BeforeLineBreak(clip), TRUE)
        IN  ~context.aborted =>
                /\ Ok(pasted) <=> Ok(replaced)
                /\ pasted.aborted <=> replaced.aborted
                /\ Ok(pasted) =>
                       /\ pasted.buffer = replaced.buffer
                       /\ pasted.selection_start = replaced.selection_start
                       /\ pasted.selection_end = replaced.selection_end
                       /\ pasted.undo_position = replaced.undo_position
                       /\ pasted.undo_insert_count = replaced.undo_insert_count
                       /\ pasted.undo_buffer = replaced.undo_buffer
                       /\ (\E i \in 1..Len(Text(pasted)) : Text(pasted)[i] = LF)
                          => \E i \in 1..Len(Text(context)) : Text(context)[i] = LF
                /\ (\A i \in 1..Len(clip) : clip[i] # LF)
                   => BeforeLineBreak(clip) = clip

\* a selection is replaced by the "A" of a clipboard text "A\r\n1"
C27_Witness ==
    LET pasted == on_paste(context, Some(<<65, CR, LF, 49>>))
    IN  /\ ~context.aborted
        /\ context.selection_start # context.selection_end
        /\ Ok(pasted)
        /\ Text(pasted) = Spliced(context, <<65>>)
        /\ Text(pasted) # Text(context)
        /\ pasted.selection_end = Min(context.selection_start, context.selection_end) + 1

\* C28: when replace_selection returns an Err because a shaping or
\* measurement call failed, the buffer, the selection and the undo record are
\* those of before the call
C28_FailureAtomicity ==
    \A X \in Replacements, can_undo \in BOOLEAN, honor_limit \in BOOLEAN,
       fuel \in 1..MaxFuel :
        LET c == replace_selection(Armed(fuel), can_undo, X, honor_limit)
        IN  (~context.aborted /\ c.err) =>
                /\ Text(c) = Text(context)
                /\ c.selection_start = context.selection_start
                /\ c.selection_end = context.selection_end
                /\ c.undo_position = context.undo_position
                /\ c.undo_insert_count = context.undo_insert_count
                /\ as_wide(c.undo_buffer) = as_wide(context.undo_buffer)


\* WM_GETTEXT: copies the buffer into a destination of max_length code units
\* and answers the length of what the destination now holds
wm_gettext(c, max_length) ==
    LET dest == lstrcpynW(Zeros(max_length), 0, max_length, c.buffer, 0)
    IN  [dest |-> as_wide(dest), lresult |-> lstrlenW(dest)]

\* WM_GETTEXTLENGTH
wm_gettextlength(c) == Unwrap(get_text_length(c).cached_text_length)

\* C29: after set_text(T) succeeds, reading the text into a large enough
\* destination gives exactly T, the text length is |T|, the selection is
\* (0,0) and the scroll offset is 0, whatever the field held and however
\* narrow it is
C29_SetTextRoundTrip ==
    \A text \in Texts, fuel \in Fuels :
        LET c == set_text(Armed(fuel), text)
        IN  (~context.aborted /\ Ok(c)) =>
                /\ wm_gettext(c, Len(text) + 1).dest = text
                /\ wm_gettext(c, Len(text) + 1).lresult = Len(text)
                /\ wm_gettext(c, MaxVec + 2).dest = text
                /\ wm_gettextlength(c) = Len(text)
                /\ c.selection_start = 0
                /\ c.selection_end = 0
                /\ c.x_offset = 0

\* a field holding other text, scrolled or with a selection, is set to a text
\* wider than its viewport
C29_Witness ==
    LET c == set_text(context, <<49, 65, 65>>)
    IN  /\ ~context.aborted
        /\ Text(context) # <<>>
        /\ Text(context) # <<49, 65, 65>>
        /\ context.selection_start # context.selection_end
        /\ 3 * GlyphAdvance > context.format_right - context.format_left
        /\ Ok(c)
        /\ wm_gettext(c, 4).dest = <<49, 65, 65>>
        /\ wm_gettextlength(c) = 3


\* the SubMenu items of menu m whose sub menu has a popup window
DisplayedChildren(ms, m) ==
    {i \in 0..(Len(ms[m].items) - 1) :
        /\ item_at(ms[m], i).kind = "SubMenu"
        /\ IsSome(ms[item_at(ms[m], i).sub_menu].window)}

\* the displayed menus are one chain from the root
Chain(ms, top) ==
    /\ \A m \in DOMAIN ms :
           /\ Cardinality(DisplayedChildren(ms, m)) <= 1
           /\ \A i \in DisplayedChildren(ms, m) :
                  /\ ms[m].focused_item_index = Some(i)
                  /\ IsSome(ms[m].window)
    /\ \A m \in DOMAIN ms :
           IsSome(ms[m].window) =>
               \/ m = top
               \/ \E n \in DOMAIN ms : DisplayedChildren(ms, n) # {}
                                       /\ get_sub_popup([menus |-> ms], n) = Some(m)

ChainKept(t) ==
    ~t.panicked =>
        /\ Chain(t.menus, t.top_menu)
        /\ \A m \in DOMAIN menus :
               (t.menus[m].focused_item_index # menus[m].focused_item_index
                /\ IsSome(get_sub_popup(Tracked, m)))
               => t.menus[Unwrap(get_sub_popup(Tracked, m))].window = None

\* C30: while a session tracks, each menu has at most one SubMenu item whose
\* popup is displayed, that item is the menu's focused item, and a popup is
\* displayed only while its parent's popup is; so a menu whose focus moves
\* has no popup of the item it left
C30_Chain ==
    tracker.pc = "tracking" =>
        /\ Chain(menus, tracker.top_menu)
        /\ \A vk \in MenuKeys : ChainKept(track_menu_key(Tracked, vk))
        /\ \A message \in {"WM_LBUTTONDOWN", "WM_LBUTTONUP", "WM_MOUSEMOVE"},
              point \in Points :
               ChainKept(track_menu_mouse(Tracked, message, point))


\* a chain of three popups is displayed and the pointer moves onto another
\* item of the root, which closes the two popups below it
C30_Witness ==
    /\ tracker.pc = "tracking"
    /\ Len(menus) = 3
    /\ \A m \in DOMAIN menus : IsSome(menus[m].window)
    /\ \E point \in Points :
           LET t == track_menu_mouse(Tracked, "WM_MOUSEMOVE", point)
           IN  /\ Some(point.window) = menus[tracker.top_menu].window
               /\ IsSome(point.item)
               /\ point.item # menus[tracker.top_menu].focused_item_index
               /\ ~t.panicked
               /\ t.menus[tracker.top_menu].focused_item_index = point.item
               /\ \A m \in DOMAIN menus \ {tracker.top_menu} :
                      t.menus[m].window = None


\* the menus reached from menu m by following focused SubMenu items whose
\* popups are displayed
RECURSIVE ActivePath(_, _)
ActivePath(ms, m) ==
    IF IsSome(get_sub_popup([menus |-> ms], m))
    THEN {m} \cup ActivePath(ms, Unwrap(get_sub_popup([menus |-> ms], m)))
    ELSE {m}

\* C31: while a session tracks, current_menu is the root or a menu whose
\* popup window is displayed and that is reached from the root through
\* focused SubMenu items with displayed popups
C31_CurrentMenuDisplayed ==
    tracker.pc = "tracking" =>
        \/ tracker.current_menu = tracker.top_menu
        \/ /\ IsSome(menus[tracker.current_menu].window)
           /\ tracker.current_menu \in ActivePath(menus, tracker.top_menu)


\* the offsets handed to set_selection, one of them behind every text
Offsets == 0..(MaxVec + 1)

\* C32: with len the text length, set_selection(Some(s), Some(e)) leaves the
\* selection (min(s,len), min(e,len)), unsorted; set_selection(Some(s), None)
\* leaves (min(s,len), len); set_selection(None, e) leaves (old_end, old_end)
C32_SetSelectionResult ==
    LET len == Len(Text(context)) IN
    ~context.aborted =>
        /\ \A s \in Offsets, e \in Offsets :
               LET c == set_selection(context, Some(s), Some(e))
               IN  Ok(c) => /\ c.selection_start = Min(s, len)
                            /\ c.selection_end = Min(e, len)
        /\ \A s \in Offsets :
               LET c == set_selection(context, Some(s), None)
               IN  Ok(c) => /\ c.selection_start = Min(s, len)
                            /\ c.selection_end = len
        /\ \A e \in {None} \cup {Some(x) : x \in Offsets} :
               LET c == set_selection(context, None, e)
               IN  Ok(c) => /\ c.selection_start = context.selection_end
                            /\ c.selection_end = context.selection_end

\* a field with a selection takes a pair whose start lies behind its end, a
\* pair behind the text, and the caret as anchor
C32_Witness ==
    /\ ~context.aborted
    /\ Len(Text(context)) >= 2
    /\ context.selection_start < context.selection_end
    /\ LET c == set_selection(context, Some(2), Some(1))
       IN  Ok(c) /\ c.ret = TRUE /\ c.selection_start = 2 /\ c.selection_end = 1
    /\ LET c == set_selection(context, Some(MaxVec + 1), Some(0))
       IN  Ok(c) /\ c.selection_start = Len(Text(context)) /\ c.selection_end = 0
    /\ LET c == set_selection(context, None, Some(0))
       IN  Ok(c) /\ c.ret = TRUE /\ c.selection_start = context.selection_end


\* the offsets of the range between a and b, whichever is first
Range(a, b) == Min(a, b)..(Max(a, b) - 1)

\* C33: a set_selection that changes the selection invalidates at most two
\* spans of text, none of them empty, and together they hold exactly the
\* offsets that are in one of the old and the new range and not in both
C33_InvalidatesDifference ==
    ~context.aborted =>
        \A start \in {None} \cup {Some(x) : x \in Offsets},
           end \in {None} \cup {Some(x) : x \in Offsets} :
            LET c == set_selection(context, start, end)
                old == Range(context.selection_start, context.selection_end)
                new == Range(c.selection_start, c.selection_end)
                spans == c.fx_inval
            IN  (Ok(c) /\ c.ret = TRUE) =>
                    /\ Len(spans) <= 2
                    /\ \A k \in 1..Len(spans) : spans[k][1] < spans[k][2]
                    /\ UNION {Range(spans[k][1], spans[k][2]) : k \in 1..Len(spans)}
                           = (old \ new) \cup (new \ old)

\* a selection of the first two code units becomes one of the last two of
\* three: the first and the third are invalidated, the second is not
C33_Witness ==
    /\ ~context.aborted
    /\ context.selection_start = 0
    /\ context.selection_end = 2
    /\ LET c == set_selection(context, Some(3), Some(1))
       IN  /\ Ok(c)
           /\ c.selection_start = 3
           /\ Len(c.fx_inval) = 2
           /\ {<<c.fx_inval[k][1], c.fx_inval[k][2]>> : k \in 1..2} = {<<0, 1>>, <<2, 3>>}


DeletionCoalesces(c, s, e) ==
    /\ c.undo_insert_count = 0
    /\ ~is_empty(c.undo_buffer)
    /\ (s = c.undo_position \/ e = c.undo_position)

\* C35: a replace_selection(can_undo = true) that deletes a span D = old[s..e)
\* which does not join the previous record and inserts X leaves the record
\* (position s, inserted count |X|, deleted text D), with nothing of an
\* earlier record behind D
C35_FreshRecord ==
    \A X \in Replacements, honor_limit \in BOOLEAN :
        LET s == Min(context.selection_start, context.selection_end)
            e == Max(context.selection_start, context.selection_end)
            c == replace_selection(context, TRUE, X, honor_limit)
        IN  (/\ ~context.aborted
             /\ s < e
             /\ e <= Len(Text(context))
             /\ ~DeletionCoalesces(context, s, e)
             /\ Ok(c)
             /\ Text(c) = Spliced(context, X))
            => /\ c.undo_position = s
               /\ c.undo_insert_count = Len(X)
               /\ as_wide(c.undo_buffer) = SubSeq(Text(context), s + 1, e)


\* C36: a left-button-down and a double-click leave is_captured set, a
\* left-button-up leaves it clear, a field that has lost the mouse capture
\* has it clear, and while it is clear a mouse-move leaves the selection
C36_MouseCapture ==
    ~context.aborted =>
        /\ \A shift \in BOOLEAN, x \in MouseXs :
               Ok(on_left_button_down(context, shift, x))
                   => on_left_button_down(context, shift, x).is_captured
        /\ Ok(on_double_click(context)) => on_double_click(context).is_captured
        /\ Ok(on_left_button_up(context)) => ~on_left_button_up(context).is_captured
        /\ ~context.sys_capture => ~context.is_captured
        /\ ~context.is_captured =>
               \A x \in MouseXs :
                   /\ on_mouse_move(context, x).selection_start = context.selection_start
                   /\ on_mouse_move(context, x).selection_end = context.selection_end


\* the field drags: its flag is set and its window holds the mouse capture
MouseCaptured(c) == c.is_captured /\ c.sys_capture

\* what holds of C36 when the loss of the capture is not asked to clear
\* is_captured: a left-button-down and a double-click leave the field
\* dragging, a left-button-up leaves it not dragging, and while the field is
\* not dragging a mouse-move leaves the selection
C36_MouseCaptureHeld ==
    ~context.aborted =>
        /\ \A shift \in BOOLEAN, x \in MouseXs :
               Ok(on_left_button_down(context, shift, x))
                   => MouseCaptured(on_left_button_down(context, shift, x))
        /\ Ok(on_double_click(context)) => MouseCaptured(on_double_click(context))
        /\ Ok(on_left_button_up(context))
               => /\ ~on_left_button_up(context).is_captured
                  /\ ~MouseCaptured(on_left_button_up(context))
        /\ ~MouseCaptured(context) =>
               \A x \in MouseXs :
                   /\ on_mouse_move(context, x).selection_start = context.selection_start
                   /\ on_mouse_move(context, x).selection_end = context.selection_end
                   /\ on_mouse_move(context, x).x_offset = context.x_offset


\* the keys that move the caret
CaretKeys == {"LEFT", "RIGHT", "HOME", "END"}

\* C37: Shift with Left, Right, Home or End, a Shift+click and a mouse-drag
\* leave selection_start as it was; the same keys and a click without Shift
\* leave selection_start equal to selection_end
C37_AnchorPreserved ==
    ~context.aborted =>
        /\ \A key \in CaretKeys :
               /\ LET c == on_key_down(context, key, TRUE, FALSE, FALSE, None)
                  IN  Ok(c) => c.selection_start = context.selection_start
               /\ LET c == on_key_down(context, key, FALSE, FALSE, FALSE, None)
                  IN  Ok(c) => c.selection_start = c.selection_end
        /\ \A x \in MouseXs :
               /\ LET c == on_left_button_down(context, TRUE, x)
                  IN  Ok(c) => c.selection_start = context.selection_start
               /\ LET c == on_left_button_down(context, FALSE, x)
                  IN  Ok(c) => c.selection_start = c.selection_end
               /\ LET c == on_mouse_move(context, x)
                  IN  Ok(c) => c.selection_start = context.selection_start

\* a dragging field with a selection: Shift+End and a mouse-move move the
\* caret away from the anchor, which stays, and End alone collapses
C37_Witness ==
    /\ ~context.aborted
    /\ MouseCaptured(context)
    /\ context.selection_start # context.selection_end
    /\ context.selection_start < Len(Text(context))
    /\ LET c == on_key_down(context, "END", TRUE, FALSE, FALSE, None)
       IN  /\ Ok(c)
           /\ c.selection_end # context.selection_end
           /\ c.selection_start = context.selection_start
    /\ LET c == on_key_down(context, "END", FALSE, FALSE, FALSE, None)
       IN  Ok(c) /\ c.selection_start = Len(Text(context))
    /\ \E x \in MouseXs :
           LET c == on_mouse_move(context, x)
           IN  /\ Ok(c)
               /\ c.selection_end # context.selection_end
               /\ c.selection_start = context.selection_start


\* C38: while a session tracks, no menu's focused index designates a
\* MenuDivider item
C38_NoDividerFocus ==
    tracker.pc = "tracking" =>
        \A m \in DOMAIN menus :
            IsSome(menus[m].focused_item_index) =>
                item_at(menus[m], Unwrap(menus[m].focused_item_index)).kind
                    # "MenuDivider"


\* C39: with an empty undo record (inserted count 0, no deleted text) an undo
\* leaves the text and the selection as they were
C39_EmptyUndoNoOp ==
    LET c == on_undo(context)
    IN  (/\ ~context.aborted
         /\ context.undo_insert_count = 0
         /\ as_wide(context.undo_buffer) = <<>>
         /\ Ok(c))
        => /\ Text(c) = Text(context)
           /\ c.selection_start = context.selection_start
           /\ c.selection_end = context.selection_end


\* every code unit of the text is a digit
OnlyDigits(text) == \A i \in 1..Len(text) : text[i] \in Digits

\* C40: in a Number field whose text and undo record hold only digits, no
\* character event, key-down, paste, cut or undo leaves a text with a
\* code unit that is not a digit
C40_NumberStaysNumeric ==
    (/\ ~context.aborted
     /\ context.input_type = "Number"
     /\ OnlyDigits(Text(context))
     /\ OnlyDigits(as_wide(context.undo_buffer)))
    => /\ \A char \in CharCodes, control \in BOOLEAN, clip \in ClipTexts :
              OnlyDigits(Text(on_char(context, char, control, Some(clip))))
       /\ \A key \in Keys, shift \in BOOLEAN, control \in BOOLEAN, clip \in ClipTexts :
              OnlyDigits(Text(on_key_down(context, key, shift, control, FALSE, Some(clip))))
       /\ \A clip \in ClipTexts : OnlyDigits(Text(on_paste(context, Some(clip))))
       /\ OnlyDigits(Text(on_cut(context)))
       /\ OnlyDigits(Text(on_undo(context)))

====
